---- MODULE Spec2Model ----
(***************************************************************************)
(* cpgo: one Run fetches a CPU profile, compares it with the PGO artifact  *)
(* on the base branch and, when it differs, writes a commit on the head    *)
(* branch and opens or reuses a pull request.                              *)
(*                                                                         *)
(* The hosting platform (refs, commits, pull requests) is the shared       *)
(* state.  Every platform call of a run is one atomic step, so that other  *)
(* runs and other actors interleave between the calls.                     *)
(*                                                                         *)
(* Two kinds of strings:                                                   *)
(*   names  - TLA+ strings, used where the code only compares a string or  *)
(*            tests it for blankness (branches, owner, path, title);       *)
(*   texts  - sequences of one-character strings, used where the code      *)
(*            searches, trims or concatenates (pull request body, marker). *)
(* The long string literals of the source are abbreviated to short texts.  *)
(***************************************************************************)
EXTENDS Integers, Sequences, FiniteSets, TLC

(***************************************************************************)
(* Bounds of the model (not program constants).                            *)
(***************************************************************************)
\* steps other actors take: commits pushed onto the base branch and pull
\* requests opened
MaxEnvSteps == 1
\* length of the configured pull request body and marker
MaxTextLen == 2
\* length of the bodies appendMarker is called with on its own
MaxBodyLen == 4

\* the concurrent invocations of Run
Runs == {1, 2}

(***************************************************************************)
(* Texts: strings.Contains, strings.TrimSpace, strings.TrimRight.          *)
(***************************************************************************)
NL == "\n"

IsSpace(c) == c \in {" ", NL}

RECURSIVE TrimLeftSpace(_)
TrimLeftSpace(s) ==
    IF s # <<>> /\ IsSpace(Head(s)) THEN TrimLeftSpace(Tail(s)) ELSE s

RECURSIVE TrimRightSpace(_)
TrimRightSpace(s) ==
    IF s # <<>> /\ IsSpace(s[Len(s)])
    THEN TrimRightSpace(SubSeq(s, 1, Len(s) - 1))
    ELSE s

TrimSpace(s) == TrimRightSpace(TrimLeftSpace(s))

\* strings.TrimRight(s, "\n")
RECURSIVE TrimRightNL(_)
TrimRightNL(s) ==
    IF s # <<>> /\ s[Len(s)] = NL
    THEN TrimRightNL(SubSeq(s, 1, Len(s) - 1))
    ELSE s

\* sub occurs in s starting at index i
OccursAt(s, i, sub) ==
    /\ i + Len(sub) - 1 <= Len(s)
    /\ SubSeq(s, i, i + Len(sub) - 1) = sub

\* strings.Contains(s, sub); the empty text is contained in every text
Contains(s, sub) == \E i \in 1..(Len(s) + 1) : OccursAt(s, i, sub)

\* number of (possibly overlapping) occurrences of a non-empty sub in s
Occurrences(s, sub) == Cardinality({i \in 1..Len(s) : OccursAt(s, i, sub)})

appendMarker_never(body, marker) == body

appendMarker_always(body, marker) == TrimRightNL(body) \o <<NL, NL>> \o marker

appendMarker_untrimmed(body, marker) ==
    IF Contains(body, marker) THEN body
    ELSE IF TrimSpace(body) = <<>> THEN marker
    ELSE body \o <<NL, NL>> \o marker

appendMarker(body, marker) ==
    IF Contains(body, marker) THEN body
    ELSE IF TrimSpace(body) = <<>> THEN marker
    ELSE TrimRightNL(body) \o <<NL, NL>> \o marker

(***************************************************************************)
(* Names: strings.TrimSpace(s) == "" on the names the model uses.  The     *)
(* non-blank names of the model carry no surrounding white space.          *)
(***************************************************************************)
BlankNames == {"", " "}

IsBlankName(s) == s \in BlankNames

(***************************************************************************)
(* RunRequest and its normalization.                                       *)
(***************************************************************************)
defaultProfileSeconds == 30
defaultHeadBranch == "cpgo"
\* "<!-- managed-by:cpgo -->": no proper prefix of it is also a suffix
defaultManagedByMarker == <<"<", "m", ">">>
defaultPRTitle == "perf(pgo): refresh pgo profile"
\* "Automated PGO profile refresh."
defaultPRBody == <<"A", ".">>
defaultCommitMessage == "perf(pgo): refresh pgo profile"

\* the request of the service tests (newRunRequest): only the required fields
BaseRequest ==
    [URL |-> "ok", Seconds |-> 0,
     Owner |-> "acme", Name |-> "payments", PGOPath |-> "default.pgo",
     BaseBranch |-> "", HeadBranch |-> "",
     Title |-> "", Body |-> <<>>, ManagedByMarker |-> <<>>,
     Message |-> ""]

normalizedError_none(rq) == "none"

normalized_identity(rq) == rq

\* RunRequest{}
ZeroRequest ==
    [URL |-> "nil", Seconds |-> 0,
     Owner |-> "", Name |-> "", PGOPath |-> "",
     BaseBranch |-> "", HeadBranch |-> "",
     Title |-> "", Body |-> <<>>, ManagedByMarker |-> <<>>,
     Message |-> ""]

normalized_keepsMarker(rq) ==
    [rq EXCEPT
       !.Seconds = IF @ <= 0 THEN defaultProfileSeconds ELSE @,
       !.HeadBranch = IF IsBlankName(@) THEN defaultHeadBranch ELSE @,
       !.Title = IF IsBlankName(@) THEN defaultPRTitle ELSE @,
       !.Body = IF TrimSpace(@) = <<>> THEN defaultPRBody ELSE @,
       !.Message = IF IsBlankName(@) THEN defaultCommitMessage ELSE @]

\* URL is "nil", "noscheme", "nohost" or "ok"
normalizedError(rq) ==
    IF rq.URL = "nil" THEN "profile url is required"
    ELSE IF rq.URL \in {"noscheme", "nohost"}
        THEN "profile url must include scheme and host"
    ELSE IF IsBlankName(rq.Owner) THEN "repository owner is required"
    ELSE IF IsBlankName(rq.Name) THEN "repository name is required"
    ELSE IF IsBlankName(rq.PGOPath) THEN "repository pgo path is required"
    ELSE "none"

normalized(rq) ==
    [rq EXCEPT
       !.Seconds = IF @ <= 0 THEN defaultProfileSeconds ELSE @,
       !.HeadBranch = IF IsBlankName(@) THEN defaultHeadBranch ELSE @,
       !.ManagedByMarker =
           IF TrimSpace(@) = <<>> THEN defaultManagedByMarker ELSE @,
       !.Title = IF IsBlankName(@) THEN defaultPRTitle ELSE @,
       !.Body = IF TrimSpace(@) = <<>> THEN defaultPRBody ELSE @,
       !.Message = IF IsBlankName(@) THEN defaultCommitMessage ELSE @]

(***************************************************************************)
(* The hosting platform.                                                   *)
(***************************************************************************)
Branches == {"main", "dev", "cpgo"}
\* the repository's default branch (Repositories.Get)
RepoDefaultBranch == "main"
Paths == {"default.pgo", "default.pgo/x", "go.mod"}
\* the paths a recursive tree listing gives beneath a directory
Beneath(path) == IF path = "default.pgo" THEN {"default.pgo/x"} ELSE {}
\* blob contents; the profile is an opaque byte string
Contents == {"old", "new"}
\* no entry at a path of a tree
NoEntry == "<none>"
\* an entry of type "tree" (a directory) at a path
DirEntry == "<dir>"
\* bodies of the pull requests other actors open
HumanBodies == {<<"x">>}

VARIABLES
    req,       \* the RunRequest every run is invoked with
    refs,      \* branch name -> commit number, 0 when the ref does not exist
    commits,   \* commit number -> [parent, tree, by]; by = 0: another actor
    pulls,     \* pull request number ->
               \*     [base, owner, head, title, body, open, by]
    platform,  \* how the platform answers tree and blob reads
    env,       \* what the other actors have done so far
    run,       \* run -> the locals of that invocation of Run
    text,      \* appendMarker on its own: its arguments and what it returned
    call       \* normalized or Client.Create on its own: request and outcome

vars == <<req, refs, commits, pulls, platform, env, run, text, call>>

ZeroResult ==
    [BaseBranch |-> "", HeadBranch |-> "", PullRequestNumber |-> 0,
     CommitSHA |-> 0, IsProfileChanged |-> FALSE,
     IsPullRequestCreated |-> FALSE, IsNoop |-> FALSE]

\* appendMarker has not been called on its own
NoText ==
    [body |-> <<>>, marker |-> <<>>, once |-> <<>>, twice |-> <<>>, applied |-> 0]

\* neither normalized nor Client.Create has been called on its own
NoCall ==
    [op |-> "none", request |-> <<>>, applied |-> 0, err |-> "none",
     once |-> <<>>, twice |-> <<>>, number |-> 0]

\* *PullRequest nil
NoPull == [Number |-> 0, Body |-> <<>>]

InitialRun ==
    [pc |-> "normalize", calls |-> <<>>, err |-> "none", result |-> ZeroResult,
     profile |-> "", baseBranch |-> "", openPR |-> NoPull,
     readResult |-> [HasFile |-> FALSE, Content |-> ""],
     baseCommitSHA |-> 0, baseTreeSHA |-> <<>>, blobSHA |-> "",
     treeSHA |-> <<>>, commitSHA |-> 0, createErr |-> "none",
     writeResult |-> [CommitSHA |-> 0, IsBranchCreated |-> FALSE],
     writes |-> <<>>, refAttempts |-> 0, expired |-> FALSE]

RootTree(artifact) ==
    [p \in Paths |->
        IF p = "default.pgo" THEN artifact
        ELSE IF p \in Beneath("default.pgo")
            THEN IF artifact = DirEntry THEN "child" ELSE NoEntry
        ELSE "module"]

\* a platform that lists trees completely, serves every blob and reports the
\* repository's default branch
NormalPlatform ==
    [truncated |-> FALSE, omitted |-> FALSE, missingBlobs |-> {},
     failingBlobs |-> {}, defaultBranch |-> RepoDefaultBranch,
     faults |-> TRUE]

\* the same platform when no collaborator is at fault: a call fails only for
\* the state of the repository or the deadline of the run
ReliablePlatform == [NormalPlatform EXCEPT !.faults = FALSE]


\* the artifact is absent from the base branches or has been written before
NormalArtifacts == {NoEntry, "old"}

\* no pull request has been opened yet
NoPulls == {<<>>}

\* the head branch exists when a pull request is open from it
InitWith(requests, artifacts, platforms, pullLists) ==
    /\ req \in requests
    /\ \E artifact \in artifacts :
          commits = <<[parent |-> 0, tree |-> RootTree(artifact), by |-> 0]>>
    /\ pulls \in pullLists
    /\ refs = [b \in Branches |->
                 IF b = "cpgo" /\ \A n \in 1..Len(pulls) :
                                     ~(/\ pulls[n].open
                                       /\ pulls[n].owner = req.Owner
                                       /\ pulls[n].head = b)
                 THEN 0 ELSE 1]
    /\ platform \in platforms
    /\ env = [steps |-> 0]
    /\ run = [r \in Runs |-> InitialRun]

(***************************************************************************)
(* Helpers for the steps of a run.                                         *)
(***************************************************************************)
\* the normalized request of Service.Run
N == normalized(req)

Called(rec, name) == [rec EXCEPT !.calls = Append(@, name)]

\* what the model remembers of an invocation beyond its locals: the calls it
\* made, the platform writes that took effect and its attempts on the head ref
History(rec) ==
    [InitialRun EXCEPT
        !.calls = rec.calls, !.writes = rec.writes,
        !.refAttempts = rec.refAttempts, !.expired = rec.expired]

\* the call that failed never returns to Run
Failed_hangs(rec, e) == [History(rec) EXCEPT !.pc = "hangs", !.err = e]

Failed_keepsResult(rec, e) ==
    [History(rec) EXCEPT
        !.pc = "done", !.err = e, !.openPR = rec.openPR, !.result = rec.result]

\* return RunResult{}, err: the locals of the invocation are gone; the model
\* keeps the history and the pull request the lookup answered with
Failed(rec, e) ==
    [History(rec) EXCEPT !.pc = "done", !.err = e, !.openPR = rec.openPR]

\* return RunResult{}, ErrUnmanagedPullRequest: the model also keeps what the
\* run fetched and the base branch it resolved
Blocked(rec) ==
    [Failed(rec, "ErrUnmanagedPullRequest") EXCEPT
        !.profile = rec.profile, !.baseBranch = rec.baseBranch]

\* return result, nil: the model also keeps what the run fetched and read
Returned(rec, res) ==
    [History(rec) EXCEPT
        !.pc = "done", !.result = res,
        !.openPR = rec.openPR, !.profile = rec.profile,
        !.readResult = rec.readResult, !.writeResult = rec.writeResult]

\* a write of the given kind took effect on the platform
Wrote(rec, kind) == [rec EXCEPT !.writes = Append(@, kind)]

\* one more Git.UpdateRef or Git.CreateRef call on the head ref
RefAttempt(rec) == [rec EXCEPT !.refAttempts = @ + 1]

Expired_never(r) == FALSE

\* the context of run r is done: its deadline has passed or it was cancelled;
\* a call that takes the context then returns the context's error
Expired(r) == run[r].expired

\* a call of run r can fail for a reason other than the state of the
\* repository: the collaborator is at fault, or the context of the run is done
CanFail(r) == platform.faults \/ Expired(r)

PlatformUnchanged ==
    UNCHANGED <<req, refs, commits, pulls, platform, env, text, call>>

(***************************************************************************)
(* Service.Run, up to the pull request lookup.                             *)
(***************************************************************************)
Normalize(r) ==
    /\ run[r].pc = "normalize"
    /\ run' = [run EXCEPT ![r] =
          IF normalizedError(req) # "none"
          THEN Failed(@, normalizedError(req))
          ELSE [@ EXCEPT !.pc = "fetch"]]
    /\ PlatformUnchanged

\* the FetchProfileRequest Run builds
FetchProfileRequest == [URL |-> N.URL, Seconds |-> N.Seconds]

\* the checks of Fetcher.FetchCPUProfile that come before its HTTP request
FetchError(fr) ==
    IF fr.URL = "nil" THEN "profile url is required"
    ELSE IF fr.Seconds <= 0 THEN "profile seconds must be positive"
    ELSE "none"

FetchCPUProfile(r) ==
    /\ run[r].pc = "fetch"
    /\ \/ /\ ~Expired(r)
          /\ FetchError(FetchProfileRequest) = "none"
          /\ \E p \in Contents :
                run' = [run EXCEPT ![r] =
                   [Called(@, "FetchCPUProfile") EXCEPT
                       !.profile = p, !.pc = "validate"]]
       \/ /\ CanFail(r) \/ FetchError(FetchProfileRequest) # "none"
          /\ run' = [run EXCEPT ![r] =
               Failed(Called(@, "FetchCPUProfile"), "fetch cpu profile")]
    /\ PlatformUnchanged

ValidateCPUProfile(r) ==
    /\ run[r].pc = "validate"
    /\ \/ run' = [run EXCEPT ![r] =
               [Called(@, "ValidateCPUProfile") EXCEPT !.pc = "resolve"]]
       \/ /\ CanFail(r)
          /\ run' = [run EXCEPT ![r] =
               Failed(Called(@, "ValidateCPUProfile"), "validate cpu profile")]
    /\ PlatformUnchanged

DefaultBranch_unchecked == [err |-> "none", name |-> platform.defaultBranch]

\* Client.DefaultBranch when Repositories.Get answers: [err, name]
DefaultBranch ==
    IF IsBlankName(platform.defaultBranch)
    THEN [err |-> "repository default branch is empty", name |-> ""]
    ELSE [err |-> "none", name |-> platform.defaultBranch]

\* Service.resolveBaseBranch
resolveBaseBranch(r) ==
    /\ run[r].pc = "resolve"
    /\ IF ~IsBlankName(N.BaseBranch)
       THEN run' = [run EXCEPT ![r] =
               [@ EXCEPT !.baseBranch = N.BaseBranch, !.pc = "find"]]
       ELSE \/ /\ ~Expired(r)
               /\ run' = [run EXCEPT ![r] =
                     IF DefaultBranch.err # "none"
                     THEN Failed(Called(@, "DefaultBranch"),
                                 "resolve default branch")
                     ELSE [Called(@, "DefaultBranch") EXCEPT
                              !.baseBranch = DefaultBranch.name, !.pc = "find"]]
            \/ /\ CanFail(r)
               /\ run' = [run EXCEPT ![r] =
                  Failed(Called(@, "DefaultBranch"), "resolve default branch")]
    /\ PlatformUnchanged

ListOptions_anyBase(owner, base, head) ==
    [State |-> "open", Base |-> "", Head |-> <<owner, head>>, PerPage |-> 1]

\* github.PullRequestListOptions: Head is owner + ":" + head branch
ListOptions(owner, base, head) ==
    [State |-> "open", Base |-> base, Head |-> <<owner, head>>, PerPage |-> 1]

\* the pull requests the platform selects: of the given state, into the
\* given base branch unless the filter is empty, from the given head
Selected(opts) ==
    {n \in 1..Len(pulls) :
        /\ opts.State = "all" \/ pulls[n].open = (opts.State = "open")
        /\ opts.Base = "" \/ pulls[n].base = opts.Base
        /\ <<pulls[n].owner, pulls[n].head>> = opts.Head}

Newest(found) == CHOOSE n \in found : \A k \in found : k <= n

RECURSIVE NewestFirst(_)
\* the platform lists pull requests by creation, newest first
NewestFirst(found) ==
    IF found = {} THEN <<>>
    ELSE <<Newest(found)>> \o NewestFirst(found \ {Newest(found)})

\* the first page of a listing
FirstPage(listing, perPage) ==
    SubSeq(listing, 1, IF Len(listing) < perPage THEN Len(listing) ELSE perPage)

\* PullRequests.List: the numbers of the pull requests on the first page
PullRequestsList(opts) == FirstPage(NewestFirst(Selected(opts)), opts.PerPage)

\* the open pull requests PullRequests.List answers with
OpenByHead(base, head) == PullRequestsList(ListOptions(N.Owner, base, head))

IsUnmanaged_never(pr, marker) == FALSE

\* openPR != nil && !strings.Contains(openPR.Body, marker)
IsUnmanaged(pr, marker) == pr.Number # 0 /\ ~Contains(pr.Body, marker)

AfterFind(rec, pr) ==
    IF IsUnmanaged(pr, N.ManagedByMarker)
    THEN Blocked([rec EXCEPT !.openPR = pr])
    ELSE [rec EXCEPT !.openPR = pr, !.pc = "read"]

FindOpenByHead(r) ==
    /\ run[r].pc = "find"
    /\ LET rec == Called(run[r], "FindOpenByHead")
           found == OpenByHead(rec.baseBranch, N.HeadBranch)
       IN  IF IsBlankName(rec.baseBranch) \/ IsBlankName(N.HeadBranch)
           THEN run' = [run EXCEPT ![r] = Failed(rec, "find open pull request")]
           ELSE \/ /\ CanFail(r)
                   /\ run' = [run EXCEPT ![r] =
                         Failed(rec, "find open pull request")]
                \/ /\ ~Expired(r)
                   /\ Len(found) = 0
                   /\ run' = [run EXCEPT ![r] = AfterFind(rec, NoPull)]
                \/ /\ ~Expired(r)
                   /\ Len(found) # 0
                   /\ run' = [run EXCEPT ![r] =
                         AfterFind(rec, [Number |-> found[1],
                                         Body |-> pulls[found[1]].body])]
    /\ PlatformUnchanged

(***************************************************************************)
(* Client.ReadFile and the noop decision of Service.Run.                   *)
(***************************************************************************)
\* the entry Git.GetTree (recursive) lists at path
ListedEntry(tree, path) == IF platform.omitted THEN NoEntry ELSE tree[path]

ReadFileResult_ignoresTruncation(branch, path) ==
    LET entry == ListedEntry(commits[refs[branch]].tree, path)
    IN  IF entry \in {NoEntry, DirEntry}
        THEN [err |-> "none", HasFile |-> FALSE, Content |-> ""]
        ELSE [err |-> "none", HasFile |-> TRUE, Content |-> entry]

ReadFileResult_missingBlobFails(branch, path) ==
    LET entry == ListedEntry(commits[refs[branch]].tree, path)
        none == [err |-> "none", HasFile |-> FALSE, Content |-> ""]
    IN  IF entry = NoEntry
        THEN IF platform.truncated
             THEN [none EXCEPT !.err = "tree response was truncated"]
             ELSE none
        ELSE IF entry = DirEntry THEN [none EXCEPT !.err = "not a blob entry"]
        ELSE IF entry \in platform.missingBlobs \cup platform.failingBlobs
            THEN [none EXCEPT !.err = "get blob"]
        ELSE [err |-> "none", HasFile |-> TRUE, Content |-> entry]

\* Client.ReadFile on the current platform state: [err, HasFile, Content]
ReadFileResult(branch, path) ==
    LET entry == ListedEntry(commits[refs[branch]].tree, path)
        none == [err |-> "none", HasFile |-> FALSE, Content |-> ""]
    IN  IF IsBlankName(branch) THEN [none EXCEPT !.err = "branch is required"]
        ELSE IF IsBlankName(path) THEN [none EXCEPT !.err = "path is required"]
        ELSE IF refs[branch] = 0 THEN [none EXCEPT !.err = "get base branch ref"]
        ELSE IF entry = NoEntry
            THEN IF platform.truncated
                 THEN [none EXCEPT !.err = "tree response was truncated"]
                 ELSE none
        ELSE IF entry = DirEntry THEN [none EXCEPT !.err = "not a blob entry"]
        ELSE IF entry \in platform.missingBlobs THEN none
        ELSE IF entry \in platform.failingBlobs
            THEN [none EXCEPT !.err = "get blob"]
        ELSE [err |-> "none", HasFile |-> TRUE, Content |-> entry]

IsUnchanged_never(readResult, profile) == FALSE

\* readResult.HasFile && bytes.Equal(readResult.Content, profile)
IsUnchanged(readResult, profile) ==
    readResult.HasFile /\ readResult.Content = profile

NoopResult_changed(rec) ==
    [ZeroResult EXCEPT
        !.BaseBranch = rec.baseBranch,
        !.HeadBranch = N.HeadBranch,
        !.PullRequestNumber = rec.openPR.Number,
        !.IsProfileChanged = TRUE,
        !.IsNoop = TRUE]

\* the RunResult of the noop return; prNumber(openPR) is 0 for nil
NoopResult(rec) ==
    [ZeroResult EXCEPT
        !.BaseBranch = rec.baseBranch,
        !.HeadBranch = N.HeadBranch,
        !.PullRequestNumber = rec.openPR.Number,
        !.IsNoop = TRUE]

AfterRead(rec, res) ==
    LET got == [rec EXCEPT
                  !.readResult = [HasFile |-> res.HasFile, Content |-> res.Content]]
    IN  IF IsUnchanged(got.readResult, got.profile)
        THEN Returned(got, NoopResult(got))
        ELSE [got EXCEPT !.pc = "upsert"]

ReadFile(r) ==
    /\ run[r].pc = "read"
    /\ LET rec == Called(run[r], "ReadFile")
           res == ReadFileResult(rec.baseBranch, N.PGOPath)
       IN  \/ /\ CanFail(r)
              /\ run' = [run EXCEPT ![r] =
                    Failed(rec, "read base branch pgo file")]
           \/ /\ res.err # "none"
              /\ run' = [run EXCEPT ![r] = Failed(rec, "read base branch pgo file")]
           \/ /\ ~Expired(r)
              /\ res.err = "none"
              /\ run' = [run EXCEPT ![r] = AfterRead(rec, res)]
    /\ PlatformUnchanged

(***************************************************************************)
(* Client.UpsertFileAndForceBranch, one step per platform call.            *)
(***************************************************************************)
UpsertFailed_ignored(rec) ==
    Returned(rec, [ZeroResult EXCEPT !.IsProfileChanged = TRUE])

UpsertFailed_continues(rec) == [rec EXCEPT !.pc = "ref_update"]

UpsertFailed_retried(rec) == [rec EXCEPT !.pc = "upsert"]

UpsertFailed(rec) == Failed(rec, "update pgo branch")

\* validateRepositoryRef
validateRepositoryRef(owner, name) ==
    IF IsBlankName(owner) THEN "repository owner is required"
    ELSE IF IsBlankName(name) THEN "repository name is required"
    ELSE "none"

UpsertFileRequest_raw(rec) ==
    [Owner |-> req.Owner, Name |-> req.Name, BaseBranch |-> rec.baseBranch,
     HeadBranch |-> req.HeadBranch, Path |-> req.PGOPath,
     Content |-> rec.profile, CommitMessage |-> req.Message]

\* the UpsertFileRequest Run builds
UpsertFileRequest(rec) ==
    [Owner |-> N.Owner, Name |-> N.Name, BaseBranch |-> rec.baseBranch,
     HeadBranch |-> N.HeadBranch, Path |-> N.PGOPath,
     Content |-> rec.profile, CommitMessage |-> N.Message]

\* the checks of UpsertFileAndForceBranch that come before its platform calls
UpsertError(ur) ==
    IF validateRepositoryRef(ur.Owner, ur.Name) # "none"
    THEN validateRepositoryRef(ur.Owner, ur.Name)
    ELSE IF IsBlankName(ur.BaseBranch) THEN "base branch is required"
    ELSE IF IsBlankName(ur.HeadBranch) THEN "head branch is required"
    ELSE IF IsBlankName(ur.Path) THEN "path is required"
    ELSE IF IsBlankName(ur.CommitMessage) THEN "commit message is required"
    ELSE "none"

\* the request validation and the Git.GetRef of baseCommitTree
baseCommitTree(r) ==
    /\ run[r].pc = "upsert"
    /\ LET rec == Called(run[r], "UpsertFileAndForceBranch")
           invalid == UpsertError(UpsertFileRequest(rec)) # "none"
       IN  \/ /\ CanFail(r)
              /\ run' = [run EXCEPT ![r] = UpsertFailed(rec)]
           \/ /\ invalid \/ refs[rec.baseBranch] = 0
              /\ run' = [run EXCEPT ![r] = UpsertFailed(rec)]
           \/ /\ ~Expired(r)
              /\ ~invalid /\ refs[rec.baseBranch] # 0
              /\ run' = [run EXCEPT ![r] =
                    [rec EXCEPT
                        !.baseCommitSHA = refs[rec.baseBranch],
                        !.pc = "base_commit"]]
    /\ PlatformUnchanged

\* the Git.GetCommit of baseCommitTree, on the commit the ref pointed at
getBaseCommit(r) ==
    /\ run[r].pc = "base_commit"
    /\ \/ /\ CanFail(r)
          /\ run' = [run EXCEPT ![r] = UpsertFailed(@)]
       \/ /\ ~Expired(r)
          /\ run' = [run EXCEPT ![r] =
                [@ EXCEPT
                    !.baseTreeSHA = commits[run[r].baseCommitSHA].tree,
                    !.pc = "blob"]]
    /\ PlatformUnchanged

Base64Decode_encoded(encoded) == encoded[1]

\* base64.StdEncoding.EncodeToString, and the platform's decoding of the blob
Base64Encode(content) == <<"base64", content>>
Base64Decode(encoded) == encoded[2]

\* blobs are content addressed: the SHA of a blob stands for its bytes
createBlob(r) ==
    /\ run[r].pc = "blob"
    /\ \/ /\ CanFail(r)
          /\ run' = [run EXCEPT ![r] = UpsertFailed(@)]
       \/ /\ ~Expired(r)
          /\ run' = [run EXCEPT ![r] =
                [Wrote(@, "blob") EXCEPT
                    !.blobSHA = Base64Decode(Base64Encode(run[r].profile)),
                    !.pc = "tree"]]
    /\ PlatformUnchanged

NewTree_unchanged(baseTree, path, blob) == baseTree

NewTree_only(baseTree, path, blob) ==
    [p \in DOMAIN baseTree |-> IF p = path THEN blob ELSE NoEntry]

\* what the platform builds for Git.CreateTree(baseTreeSHA, one blob entry of
\* regular-file mode at path): the base tree with the entry at path replaced;
\* a directory the blob replaces goes with the entries beneath it
NewTree(baseTree, path, blob) ==
    [p \in DOMAIN baseTree |->
        IF p = path THEN blob
        ELSE IF p \in Beneath(path) THEN NoEntry
        ELSE baseTree[p]]

\* trees are content addressed too: the SHA of a tree stands for its entries
createTree(r) ==
    /\ run[r].pc = "tree"
    /\ \/ /\ CanFail(r)
          /\ run' = [run EXCEPT ![r] = UpsertFailed(@)]
       \/ /\ ~Expired(r)
          /\ run' = [run EXCEPT ![r] =
                [Wrote(@, "tree") EXCEPT
                    !.treeSHA =
                       NewTree(run[r].baseTreeSHA, N.PGOPath, run[r].blobSHA),
                    !.pc = "commit"]]
    /\ PlatformUnchanged

CommitParent_head(rec) ==
    IF refs[defaultHeadBranch] # 0
    THEN refs[defaultHeadBranch] ELSE rec.baseCommitSHA

\* the sole parent of the new commit: the commit baseCommitTree resolved
CommitParent(rec) == rec.baseCommitSHA

createCommit(r) ==
    /\ run[r].pc = "commit"
    /\ \/ /\ CanFail(r)
          /\ run' = [run EXCEPT ![r] = UpsertFailed(@)]
          /\ UNCHANGED commits
       \/ /\ ~Expired(r)
          /\ commits' = Append(commits,
                [parent |-> CommitParent(run[r]), tree |-> run[r].treeSHA,
                 by |-> r])
          /\ run' = [run EXCEPT ![r] =
                [Wrote(@, "commit") EXCEPT
                    !.commitSHA = Len(commits) + 1, !.pc = "ref_update"]]
    /\ UNCHANGED <<req, refs, pulls, platform, env, text, call>>

NeedsCreate_always(pr) == TRUE

NeedsCreate_never(pr) == FALSE

\* openPR == nil after a successful upsert
NeedsCreate(pr) == pr.Number = 0

\* the RunResult after a successful upsert, before a pull request is created
UpsertResult(rec) ==
    [ZeroResult EXCEPT
        !.BaseBranch = rec.baseBranch,
        !.HeadBranch = N.HeadBranch,
        !.CommitSHA = rec.writeResult.CommitSHA,
        !.PullRequestNumber = rec.openPR.Number,
        !.IsProfileChanged = TRUE]

\* Service.Run after UpsertFileAndForceBranch returned without error
AfterUpsert(rec) ==
    IF NeedsCreate(rec.openPR)
    THEN [History(rec) EXCEPT
             !.pc = "create_pr", !.result = UpsertResult(rec),
             !.openPR = rec.openPR,
             !.profile = rec.profile, !.readResult = rec.readResult,
             !.baseBranch = rec.baseBranch, !.writeResult = rec.writeResult]
    ELSE Returned(rec, UpsertResult(rec))

UpsertFileResult_neverCreated(commitSHA, isBranchCreated) ==
    [CommitSHA |-> commitSHA, IsBranchCreated |-> FALSE]

\* the UpsertFileResult of a successful upsert
UpsertFileResult(commitSHA, isBranchCreated) ==
    [CommitSHA |-> commitSHA, IsBranchCreated |-> isBranchCreated]

\* updateHeadRef returned (isBranchCreated, nil): the head ref was written
RefWritten(rec, isBranchCreated) ==
    [Wrote(rec, "ref") EXCEPT
        !.writeResult = UpsertFileResult(rec.commitSHA, isBranchCreated)]

AfterCreateRefFailed_givesUp(rec, e) == UpsertFailed(rec)

AfterCreateRefFailed_restart(rec, e) == [rec EXCEPT !.pc = "ref_update"]

\* Git.CreateRef failed, whatever the error: the force update is retried
AfterCreateRefFailed(rec, e) == [rec EXCEPT !.createErr = e, !.pc = "ref_retry"]

\* the error responses of Git.UpdateRef: by status, and by message for 422
NotFound == "404 Not Found"
ReferenceMissing == "422 Reference does not exist"
OtherFailure == "other"

\* the error responses the platform can give to a Git.UpdateRef on a branch:
\* 422 "Reference does not exist" for a ref that is absent, 404 when the
\* repository or the ref is not visible to the caller, any other failure
UpdateRefErrors(branch) ==
    {NotFound, OtherFailure} \cup
    (IF refs[branch] = 0 THEN {ReferenceMissing} ELSE {})

isNotFound(e) == e = NotFound

isReferenceMissing(e) == e = ReferenceMissing

\* Client.updateHeadRef: the first Git.UpdateRef (force)
updateHeadRef(r) ==
    /\ run[r].pc = "ref_update"
    /\ \/ /\ \E e \in UpdateRefErrors(N.HeadBranch) :
                /\ ~isNotFound(e) /\ ~isReferenceMissing(e)
                /\ CanFail(r)
                /\ run' = [run EXCEPT ![r] = UpsertFailed(RefAttempt(@))]
          /\ UNCHANGED refs
       \/ /\ ~Expired(r)
          /\ refs[N.HeadBranch] # 0
          /\ refs' = [refs EXCEPT ![N.HeadBranch] = run[r].commitSHA]
          /\ run' = [run EXCEPT ![r] =
                AfterUpsert(RefWritten(RefAttempt(@), FALSE))]
       \/ /\ ~Expired(r)
          /\ \E e \in UpdateRefErrors(N.HeadBranch) :
                /\ isNotFound(e) \/ isReferenceMissing(e)
                /\ isNotFound(e) => (platform.faults \/ refs[N.HeadBranch] = 0)
                /\ run' = [run EXCEPT ![r] =
                      [RefAttempt(@) EXCEPT !.pc = "ref_create"]]
          /\ UNCHANGED refs
    /\ UNCHANGED <<req, commits, pulls, platform, env, text, call>>

\* Client.updateHeadRef: Git.CreateRef after the ref was reported missing
createHeadRef(r) ==
    /\ run[r].pc = "ref_create"
    /\ \/ /\ ~Expired(r)
          /\ refs[N.HeadBranch] = 0
          /\ refs' = [refs EXCEPT ![N.HeadBranch] = run[r].commitSHA]
          /\ run' = [run EXCEPT ![r] =
                AfterUpsert(RefWritten(RefAttempt(@), TRUE))]
       \/ /\ \E e \in {"exists", "other"} :
                /\ e = "exists" => refs[N.HeadBranch] # 0
                /\ e = "other" => CanFail(r)
                /\ run' = [run EXCEPT ![r] =
                      AfterCreateRefFailed(RefAttempt(@), e)]
          /\ UNCHANGED refs
    /\ UNCHANGED <<req, commits, pulls, platform, env, text, call>>

\* Client.updateHeadRef: the second Git.UpdateRef, after CreateRef failed
retryUpdateHeadRef(r) ==
    /\ run[r].pc = "ref_retry"
    /\ \/ /\ ~Expired(r)
          /\ refs[N.HeadBranch] # 0
          /\ refs' = [refs EXCEPT ![N.HeadBranch] = run[r].commitSHA]
          /\ run' = [run EXCEPT ![r] =
                AfterUpsert(RefWritten(RefAttempt(@), FALSE))]
       \/ /\ CanFail(r) \/ refs[N.HeadBranch] = 0
          /\ run' = [run EXCEPT ![r] = UpsertFailed(RefAttempt(@))]
          /\ UNCHANGED refs
    /\ UNCHANGED <<req, commits, pulls, platform, env, text, call>>

(***************************************************************************)
(* Client.Create and the end of Service.Run.                               *)
(***************************************************************************)
CreateError_none(cr) == "none"

\* the checks of Client.Create that come before its platform call
CreateError(cr) ==
    IF validateRepositoryRef(cr.Owner, cr.Name) # "none"
    THEN validateRepositoryRef(cr.Owner, cr.Name)
    ELSE IF IsBlankName(cr.BaseBranch) THEN "base branch is required"
    ELSE IF IsBlankName(cr.HeadBranch) THEN "head branch is required"
    ELSE IF IsBlankName(cr.Title) THEN "title is required"
    ELSE IF TrimSpace(cr.Body) = <<>> THEN "body is required"
    ELSE "none"

\* the body Run passes to Create
CreateBody == appendMarker(N.Body, N.ManagedByMarker)

\* the CreatePullRequestRequest Run builds
CreateRequest(rec) ==
    [Owner |-> N.Owner, Name |-> N.Name, BaseBranch |-> rec.baseBranch,
     HeadBranch |-> N.HeadBranch, Title |-> N.Title, Body |-> CreateBody]

\* the pull request the platform opens for a create request
NewPull(cr, by) ==
    [base |-> cr.BaseBranch, owner |-> cr.Owner, head |-> cr.HeadBranch,
     title |-> cr.Title, body |-> cr.Body, open |-> TRUE, by |-> by]

Create(r) ==
    /\ run[r].pc = "create_pr"
    /\ LET rec == Called(run[r], "Create")
           cr == CreateRequest(rec)
       IN  \/ /\ CanFail(r) \/ CreateError(cr) # "none"
              /\ run' = [run EXCEPT ![r] = Failed(rec, "create pull request")]
              /\ UNCHANGED pulls
           \/ /\ ~Expired(r)
              /\ CreateError(cr) = "none"
              /\ pulls' = Append(pulls, NewPull(cr, r))
              /\ run' = [run EXCEPT ![r] =
                    Returned(Wrote(rec, "pull"), [rec.result EXCEPT
                        !.PullRequestNumber = Len(pulls) + 1,
                        !.IsPullRequestCreated = TRUE])]
    /\ UNCHANGED <<req, refs, commits, platform, env, text, call>>

(***************************************************************************)
(* Other actors on the same repository.                                    *)
(***************************************************************************)
\* somebody pushes a commit that changes the artifact on the default branch
PushBase ==
    /\ env.steps < MaxEnvSteps
    /\ \E content \in Contents :
          LET tip == refs[RepoDefaultBranch]
          IN  /\ commits[tip].tree["default.pgo"] # content
              /\ commits' = Append(commits,
                    [parent |-> tip,
                     tree |-> [commits[tip].tree EXCEPT !["default.pgo"] = content],
                     by |-> 0])
              /\ refs' = [refs EXCEPT ![RepoDefaultBranch] = Len(commits) + 1]
    /\ env' = [env EXCEPT !.steps = @ + 1]
    /\ UNCHANGED <<req, pulls, platform, run, text, call>>

\* somebody opens a pull request from the head branch, creating the branch
\* from the pull request's base when it does not exist yet
HumanOpenPull ==
    /\ env.steps < MaxEnvSteps
    /\ \E base \in {"main", "dev"}, body \in HumanBodies :
          /\ pulls' = Append(pulls,
                [base |-> base, owner |-> req.Owner,
                 head |-> defaultHeadBranch,
                 title |-> "manual", body |-> body, open |-> TRUE, by |-> 0])
          /\ refs' = [refs EXCEPT ![defaultHeadBranch] =
                         IF @ = 0 THEN refs[base] ELSE @]
    /\ env' = [env EXCEPT !.steps = @ + 1]
    /\ UNCHANGED <<req, commits, platform, run, text, call>>

\* somebody deletes the head branch; the platform closes the pull requests
\* that were open from it
DeleteHeadRef ==
    /\ env.steps < MaxEnvSteps
    /\ refs[defaultHeadBranch] # 0
    /\ refs' = [refs EXCEPT ![defaultHeadBranch] = 0]
    /\ pulls' = [n \in DOMAIN pulls |->
                    IF pulls[n].head = defaultHeadBranch
                    THEN [pulls[n] EXCEPT !.open = FALSE]
                    ELSE pulls[n]]
    /\ env' = [env EXCEPT !.steps = @ + 1]
    /\ UNCHANGED <<req, commits, platform, run, text, call>>

\* somebody merges an open pull request between two runs: its base branch
\* is advanced to the commit its head branch points at
MergePull ==
    /\ \A r \in Runs : run[r].pc \in {"normalize", "done"}
    /\ \E n \in 1..Len(pulls) :
          /\ pulls[n].open
          /\ refs[pulls[n].head] # 0
          /\ refs[pulls[n].head] # refs[pulls[n].base]
          /\ refs' = [refs EXCEPT ![pulls[n].base] = refs[pulls[n].head]]
          /\ pulls' = [pulls EXCEPT ![n].open = FALSE]
    /\ UNCHANGED <<req, commits, platform, env, run, text, call>>

(***************************************************************************)
(* Specifications.                                                         *)
(***************************************************************************)
RunStep(r) ==
    \/ Normalize(r)
    \/ FetchCPUProfile(r)
    \/ ValidateCPUProfile(r)
    \/ resolveBaseBranch(r)
    \/ FindOpenByHead(r)
    \/ ReadFile(r)
    \/ baseCommitTree(r)
    \/ getBaseCommit(r)
    \/ createBlob(r)
    \/ createTree(r)
    \/ createCommit(r)
    \/ updateHeadRef(r)
    \/ createHeadRef(r)
    \/ retryUpdateHeadRef(r)
    \/ Create(r)

\* the requests of the concurrent specification
Requests ==
    {[BaseRequest EXCEPT !.BaseBranch = b] : b \in {"", "main"}}

Init ==
    /\ InitWith(Requests, NormalArtifacts, {NormalPlatform}, NoPulls)
    /\ text = NoText
    /\ call = NoCall

Next ==
    \/ \E r \in Runs : RunStep(r)
    \/ PushBase
    \/ HumanOpenPull
    \/ DeleteHeadRef

\* runs of one deployment, concurrent with each other and with other actors
Spec == Init /\ [][Next]_vars

\* the characters of configured texts: an ordinary character and a newline
Alphabet == {"a", NL}

Texts(n) == UNION {[1..k -> Alphabet] : k \in 0..n}

\* the requests of the sequential specification: every body and marker
SeqRequests ==
    {[BaseRequest EXCEPT !.Body = b, !.ManagedByMarker = m] :
        b \in Texts(MaxTextLen), m \in Texts(MaxTextLen)}

InitSeq ==
    /\ InitWith(SeqRequests, NormalArtifacts, {NormalPlatform}, NoPulls)
    /\ text = NoText
    /\ call = NoCall

\* a run starts when the runs before it have returned; nobody else acts
InTurn(r) == \A q \in Runs : q < r => run[q].pc = "done"

NextSeq ==
    \E r \in Runs :
       \/ InTurn(r) /\ Normalize(r)
       \/ InTurn(r) /\ FetchCPUProfile(r)
       \/ InTurn(r) /\ ValidateCPUProfile(r)
       \/ InTurn(r) /\ resolveBaseBranch(r)
       \/ InTurn(r) /\ FindOpenByHead(r)
       \/ InTurn(r) /\ ReadFile(r)
       \/ InTurn(r) /\ baseCommitTree(r)
       \/ InTurn(r) /\ getBaseCommit(r)
       \/ InTurn(r) /\ createBlob(r)
       \/ InTurn(r) /\ createTree(r)
       \/ InTurn(r) /\ createCommit(r)
       \/ InTurn(r) /\ updateHeadRef(r)
       \/ InTurn(r) /\ createHeadRef(r)
       \/ InTurn(r) /\ retryUpdateHeadRef(r)
       \/ InTurn(r) /\ Create(r)

\* runs in succession on a repository nobody else touches
SpecSeq == InitSeq /\ [][NextSeq]_vars

\* the requests a caller can make: each required field present or not, the
\* base branch configured or left to the repository's default
InputRequests ==
    {[BaseRequest EXCEPT
         !.URL = u, !.Owner = o, !.Name = n, !.PGOPath = p, !.BaseBranch = b] :
        u \in {"nil", "noscheme", "nohost", "ok"},
        o \in {"acme", " "}, n \in {"payments", ""},
        p \in {"default.pgo", " "}, b \in {"", " ", "dev"}}

\* the answers of the platform: a tree listing complete, truncated after the
\* artifact's entry or truncated before it; the artifact's blob served, not
\* found or failing to load; a default branch reported or empty
InputPlatforms ==
    {[truncated |-> l[1], omitted |-> l[2], missingBlobs |-> b[1],
      failingBlobs |-> b[2], defaultBranch |-> d, faults |-> TRUE] :
        l \in {<<FALSE, FALSE>>, <<TRUE, FALSE>>, <<TRUE, TRUE>>},
        b \in {<<{}, {}>>, <<{"old"}, {}>>, <<{}, {"old"}>>},
        d \in {RepoDefaultBranch, ""}}

InitInputs ==
    /\ InitWith(InputRequests, {NoEntry, "old", DirEntry}, InputPlatforms,
                NoPulls)
    /\ text = NoText
    /\ call = NoCall

\* runs in succession, over every request and every answer of the platform
SpecInputs == InitInputs /\ [][NextSeq]_vars

\* the deadline of run r passes, or its context is cancelled
Expire(r) ==
    /\ run[r].pc # "done"
    /\ ~run[r].expired
    /\ run' = [run EXCEPT ![r] = [@ EXCEPT !.expired = TRUE]]
    /\ PlatformUnchanged

NextDeadline ==
    \/ NextSeq
    \/ \E r \in Runs : InTurn(r) /\ Expire(r)

\* runs in succession, each under its own deadline
SpecDeadline == Init /\ [][NextDeadline]_vars

\* appendMarker called on a body and a marker, then on what it returned
CallAppendMarker ==
    /\ text.applied < 2
    /\ text' =
          IF text.applied = 0
          THEN [text EXCEPT
                   !.once = appendMarker(text.body, text.marker), !.applied = 1]
          ELSE [text EXCEPT
                   !.twice = appendMarker(text.once, text.marker), !.applied = 2]
    /\ UNCHANGED <<req, refs, commits, pulls, platform, env, run, call>>

InitMarker ==
    /\ InitWith({BaseRequest}, NormalArtifacts, {NormalPlatform}, NoPulls)
    /\ \E b \in Texts(MaxBodyLen), m \in Texts(MaxTextLen) :
          text = [NoText EXCEPT !.body = b, !.marker = m]
    /\ call = NoCall

NextMarker == CallAppendMarker

\* the function appendMarker over every body and marker
SpecMarker == InitMarker /\ [][NextMarker]_vars

\* every call a run makes returns: a run that can take a step takes one
Fairness == \A r \in Runs : WF_vars(RunStep(r))

\* the runs alone on the repository, in every interleaving of their calls
NextRuns == \E r \in Runs : RunStep(r)

\* concurrent runs, with every call returning
SpecLive == Init /\ [][NextRuns]_vars /\ Fairness

InitRace ==
    /\ InitWith(Requests, NormalArtifacts, {ReliablePlatform}, NoPulls)
    /\ text = NoText
    /\ call = NoCall

\* concurrent runs alone on a repository without the head branch, no
\* collaborator at fault
SpecRace == InitRace /\ [][NextRuns]_vars

\* the requests that name branches: the base left to the repository's default
\* or configured, the head left to the default or naming an existing branch
BranchRequests ==
    {[BaseRequest EXCEPT !.BaseBranch = b, !.HeadBranch = h] :
        b \in {"", "dev"}, h \in {"", "main"}}

InitBranches ==
    /\ InitWith(BranchRequests, NormalArtifacts, {NormalPlatform}, NoPulls)
    /\ text = NoText
    /\ call = NoCall

\* concurrent runs over the branch names a request can carry; nobody else acts
SpecBranches == InitBranches /\ [][NextRuns]_vars

NextMerge ==
    \/ NextSeq
    \/ MergePull

\* runs in succession; between two runs the pull request may be merged
SpecMerge == Init /\ [][NextMerge]_vars

\* UpsertFileAndForceBranch called on its own, by a caller that has not read
\* the base branch: the artifact path may hold a file, nothing or a directory
InitUpsert ==
    /\ req = BaseRequest
    /\ \E artifact \in {NoEntry, "old", DirEntry} :
          commits = <<[parent |-> 0, tree |-> RootTree(artifact), by |-> 0]>>
    /\ pulls = <<>>
    /\ refs = [b \in Branches |-> IF b = defaultHeadBranch THEN 0 ELSE 1]
    /\ platform = NormalPlatform
    /\ env = [steps |-> 0]
    /\ run \in [Runs ->
                  {[InitialRun EXCEPT
                       !.pc = "upsert", !.baseBranch = b, !.profile = c] :
                      b \in {"main", "dev"}, c \in Contents}]
    /\ text = NoText
    /\ call = NoCall

\* the call of the callers before r has returned
UpsertTurn(r) == \A q \in Runs : q < r => run[q].pc \in {"done", "create_pr"}

NextUpsert ==
    \E r \in Runs :
       \/ UpsertTurn(r) /\ baseCommitTree(r)
       \/ UpsertTurn(r) /\ getBaseCommit(r)
       \/ UpsertTurn(r) /\ createBlob(r)
       \/ UpsertTurn(r) /\ createTree(r)
       \/ UpsertTurn(r) /\ createCommit(r)
       \/ UpsertTurn(r) /\ updateHeadRef(r)
       \/ UpsertTurn(r) /\ createHeadRef(r)
       \/ UpsertTurn(r) /\ retryUpdateHeadRef(r)

\* calls of UpsertFileAndForceBranch in succession; nobody else acts
SpecUpsert == InitUpsert /\ [][NextUpsert]_vars

\* the requests that leave out or fill in what normalization defaults, with
\* the profile URL and the artifact path present or not
ArgumentRequests ==
    {[BaseRequest EXCEPT
         !.URL = u, !.Seconds = n, !.PGOPath = p, !.HeadBranch = h,
         !.Title = t, !.Body = b, !.Message = m] :
        u \in {"nil", "ok"}, n \in {-1, 0, 1}, p \in {"default.pgo", " "},
        h \in {"", " "}, t \in {"", "t"}, b \in {<<>>, <<NL>>, <<"a">>},
        m \in {" ", "m"}}

InitArguments ==
    /\ InitWith(ArgumentRequests, NormalArtifacts, {ReliablePlatform}, NoPulls)
    /\ text = NoText
    /\ call = NoCall

\* concurrent runs over those requests, with collaborators that do not fail
\* of their own
SpecArguments == InitArguments /\ [][NextRuns]_vars

\* normalized called on a request, then on the request it returned
CallNormalized ==
    /\ call.op = "normalized"
    /\ call.applied < 2
    /\ call.err = "none"
    /\ call' =
          IF call.applied = 0
          THEN [call EXCEPT
                   !.err = normalizedError(call.request),
                   !.once = IF normalizedError(call.request) = "none"
                            THEN normalized(call.request) ELSE ZeroRequest,
                   !.applied = 1]
          ELSE [call EXCEPT
                   !.err = normalizedError(call.once),
                   !.twice = IF normalizedError(call.once) = "none"
                             THEN normalized(call.once) ELSE ZeroRequest,
                   !.applied = 2]
    /\ UNCHANGED <<req, refs, commits, pulls, platform, env, run, text>>

\* Client.Create called on a request: rejected by its checks, failed on the
\* platform, or answered with the new pull request
CallCreate ==
    /\ call.op = "Create"
    /\ call.applied = 0
    /\ LET e == CreateError(call.request)
       IN  \/ /\ e # "none"
              /\ call' = [call EXCEPT !.err = e, !.applied = 1]
              /\ UNCHANGED pulls
           \/ /\ e = "none"
              /\ call' = [call EXCEPT
                    !.err = "create pull request", !.applied = 1]
              /\ UNCHANGED pulls
           \/ /\ e = "none"
              /\ pulls' = Append(pulls, NewPull(call.request, 0))
              /\ call' = [call EXCEPT
                    !.number = Len(pulls) + 1, !.applied = 1]
    /\ UNCHANGED <<req, refs, commits, platform, env, run, text>>

\* requests with every field blank, defaulted or set
NormalizedRequests ==
    {[BaseRequest EXCEPT
         !.URL = u, !.Seconds = s, !.BaseBranch = b, !.HeadBranch = h,
         !.Title = t, !.Body = d, !.ManagedByMarker = m, !.Message = c] :
        u \in {"ok", "nil"},
        s \in {0 - 1, 0, defaultProfileSeconds, defaultProfileSeconds + 1},
        b \in {"", "dev"}, h \in {"", " ", "pgo"}, t \in {"", " ", "t"},
        d \in Texts(MaxTextLen), m \in Texts(MaxTextLen),
        c \in {" ", "m"}}

\* create requests with every required field blank or set
CreateRequests ==
    {[Owner |-> "acme", Name |-> "payments", BaseBranch |-> b,
      HeadBranch |-> h, Title |-> t, Body |-> d] :
        b \in {"", " ", "main"}, h \in {"", " ", "cpgo"},
        t \in {"", " ", "t"}, d \in Texts(MaxTextLen)}

InitCalls ==
    /\ InitWith({BaseRequest}, {NoEntry}, {NormalPlatform}, NoPulls)
    /\ text = NoText
    /\ \/ \E rq \in NormalizedRequests :
             call = [NoCall EXCEPT
                        !.op = "normalized", !.request = rq, !.once = rq,
                        !.twice = rq]
       \/ \E cr \in CreateRequests :
             call = [NoCall EXCEPT !.op = "Create", !.request = cr]

NextCalls == CallNormalized \/ CallCreate

\* normalized and Client.Create, each called on its own over every request
SpecCalls == InitCalls /\ [][NextCalls]_vars

\* a pull request somebody opened from the repository's cpgo branch into
\* main, with a body of their own
ManualPull ==
    [base |-> "main", owner |-> "acme", head |-> "cpgo", title |-> "manual",
     body |-> <<"x">>, open |-> TRUE, by |-> 0]

\* pull requests that exist before the runs: the manual one, one carrying
\* the default marker, a closed one, one into another base branch, one from
\* a fork's cpgo branch and one from another branch
EarlierPulls ==
    {ManualPull,
     [ManualPull EXCEPT
         !.body = appendMarker(defaultPRBody, defaultManagedByMarker)],
     [ManualPull EXCEPT !.open = FALSE],
     [ManualPull EXCEPT !.base = "dev"],
     [ManualPull EXCEPT !.owner = "fork"],
     [ManualPull EXCEPT !.head = "other"]}

MaxEarlierPulls == 2

RECURSIVE PullLists(_)
PullLists(n) ==
    IF n = 0 THEN {<<>>}
    ELSE PullLists(n - 1) \cup
         {Append(l, p) : l \in {k \in PullLists(n - 1) : Len(k) = n - 1},
                         p \in EarlierPulls}

InitPulls ==
    /\ InitWith({BaseRequest}, NormalArtifacts, {NormalPlatform},
                PullLists(MaxEarlierPulls))
    /\ text = NoText
    /\ call = NoCall

\* runs in succession on a repository that already has pull requests
SpecPulls == InitPulls /\ [][NextSeq]_vars

\* the requests that configure a marker: every text, blank ones included
MarkerRequests ==
    {[BaseRequest EXCEPT !.ManagedByMarker = m] : m \in Texts(MaxTextLen)}

\* before the runs no pull request is open, or one with an empty body, or one
\* whose body is a single character
OpenPullLists ==
    {<<>>, <<[ManualPull EXCEPT !.body = <<>>]>>,
     <<[ManualPull EXCEPT !.body = <<"a">>]>>}

InitBodies ==
    /\ InitWith(MarkerRequests, NormalArtifacts, {NormalPlatform},
                OpenPullLists)
    /\ text = NoText
    /\ call = NoCall

\* runs in succession over every configured marker
SpecBodies == InitBodies /\ [][NextSeq]_vars

(***************************************************************************)
(* Vocabulary of the properties.                                           *)
(***************************************************************************)
CallCount(r, name) ==
    Cardinality({i \in DOMAIN run[r].calls : run[r].calls[i] = name})

HasCalled(r, name) == CallCount(r, name) > 0

\* the marker and the branches a run works with, stated from the request
Marker ==
    IF TrimSpace(req.ManagedByMarker) = <<>>
    THEN defaultManagedByMarker ELSE req.ManagedByMarker

ConfiguredBody ==
    IF TrimSpace(req.Body) = <<>> THEN defaultPRBody ELSE req.Body

HeadOfRuns == IF req.HeadBranch \in BlankNames THEN "cpgo" ELSE req.HeadBranch

BaseOfRuns ==
    IF req.BaseBranch \in BlankNames THEN RepoDefaultBranch ELSE req.BaseBranch

\* the lookup of run r answered with a pull request lacking the marker
FoundUnmanaged(r) ==
    run[r].openPR.Number # 0 /\ ~Contains(run[r].openPR.Body, Marker)

\* the lookup of run r answered with a pull request carrying the marker
FoundManaged(r) ==
    run[r].openPR.Number # 0 /\ Contains(run[r].openPR.Body, Marker)

\* ReadFile of run r answered with the very bytes the run fetched
ReadSame(r) ==
    run[r].readResult.HasFile /\ run[r].readResult.Content = run[r].profile

\* run r has read the base branch and found the artifact absent or different
ReadDiffers(r) == HasCalled(r, "ReadFile") /\ run[r].profile # "" /\ ~ReadSame(r)

Succeeded(r) == run[r].pc = "done" /\ run[r].err = "none"

OpenUnmanagedFor(base, head) ==
    {n \in 1..Len(pulls) :
        /\ pulls[n].open /\ pulls[n].base = base /\ pulls[n].head = head
        /\ ~Contains(pulls[n].body, Marker)}

OpenManagedFor(base, head) ==
    {n \in 1..Len(pulls) :
        /\ pulls[n].open /\ pulls[n].base = base /\ pulls[n].head = head
        /\ Contains(pulls[n].body, Marker)}

ArtifactOn(branch) == commits[refs[branch]].tree["default.pgo"]

(***************************************************************************)
(* C1.  When FindOpenByHead answers with an open pull request whose body   *)
(* lacks the normalized marker, Run returns ErrUnmanagedPullRequest with   *)
(* the zero RunResult and has called none of ReadFile,                     *)
(* UpsertFileAndForceBranch and Create, whatever the fetched profile is.   *)
(***************************************************************************)
C1_UnmanagedBlocks ==
    \A r \in Runs :
       FoundUnmanaged(r) =>
          /\ run[r].pc = "done"
          /\ run[r].err = "ErrUnmanagedPullRequest"
          /\ run[r].result = ZeroResult
          /\ ~HasCalled(r, "ReadFile")
          /\ ~HasCalled(r, "UpsertFileAndForceBranch")
          /\ ~HasCalled(r, "Create")

\* a run was blocked although its profile equals the artifact on the base
C1_Witness ==
    \E r \in Runs :
       /\ FoundUnmanaged(r)
       /\ run[r].err = "ErrUnmanagedPullRequest"
       /\ ArtifactOn(run[r].baseBranch) = run[r].profile

(***************************************************************************)
(* C2.  Whenever Run looks up the open pull request while an open pull     *)
(* request with the run's head branch and a body lacking the marker        *)
(* exists, whatever its base branch, the run ends there (with              *)
(* ErrUnmanagedPullRequest, or the lookup's own error) and never reaches   *)
(* UpsertFileAndForceBranch.                                               *)
(***************************************************************************)
C2_AnyBaseBlocks ==
    [][\A r \in Runs :
          (/\ FindOpenByHead(r)
           /\ \E n \in 1..Len(pulls) :
                 /\ pulls[n].open /\ pulls[n].head = HeadOfRuns
                 /\ ~Contains(pulls[n].body, Marker))
          => /\ run'[r].pc = "done"
             /\ run'[r].err \in {"ErrUnmanagedPullRequest", "find open pull request"}
      ]_vars

(***************************************************************************)
(* C3.  A run never creates or force-updates the head branch ref at a      *)
(* moment when an open pull request for its (base, head) pair exists       *)
(* whose body lacks the marker.                                            *)
(***************************************************************************)
WritesHeadRef(r) ==
    /\ run[r].pc \in {"ref_update", "ref_create", "ref_retry"}
    /\ refs'[HeadOfRuns] # refs[HeadOfRuns]
    /\ refs'[HeadOfRuns] = run[r].commitSHA

C3_NoOverwriteOfManualPull ==
    [][\A r \in Runs :
          WritesHeadRef(r) => OpenUnmanagedFor(run[r].baseBranch, HeadOfRuns) = {}
      ]_vars

(***************************************************************************)
(* C4.  A run calls Create only when no open pull request carrying the     *)
(* marker exists for the (base, head) pair, so that there is never more    *)
(* than one such pull request.                                             *)
(***************************************************************************)
C4_OneManagedPullPerPair ==
    [][\A r \in Runs :
          Create(r) => OpenManagedFor(run[r].baseBranch, HeadOfRuns) = {}
      ]_vars

(***************************************************************************)
(* C5.  When ReadFile answers with the artifact and its bytes equal the    *)
(* fetched profile, Run returns without error IsNoop = TRUE, the other     *)
(* flags FALSE, an empty CommitSHA and the number of the pull request the  *)
(* lookup found (0 if none), and calls neither UpsertFileAndForceBranch    *)
(* nor Create.                                                             *)
(***************************************************************************)
C5_NoopWhenUnchanged ==
    \A r \in Runs :
       (HasCalled(r, "ReadFile") /\ ReadSame(r)) =>
          /\ Succeeded(r)
          /\ run[r].result =
                [BaseBranch |-> BaseOfRuns, HeadBranch |-> HeadOfRuns,
                 PullRequestNumber |-> run[r].openPR.Number, CommitSHA |-> 0,
                 IsProfileChanged |-> FALSE, IsPullRequestCreated |-> FALSE,
                 IsNoop |-> TRUE]
          /\ ~HasCalled(r, "UpsertFileAndForceBranch")
          /\ ~HasCalled(r, "Create")

\* a noop run that reports the number of the open pull request it found
C5_Witness ==
    \E r \in Runs :
       /\ Succeeded(r) /\ ReadSame(r) /\ run[r].result.IsNoop
       /\ run[r].result.PullRequestNumber # 0

(***************************************************************************)
(* C6.  Of two runs in succession that fetch the same profile bytes, with  *)
(* nobody else changing the repository, the second returns IsNoop = TRUE   *)
(* and does not call the writer's upsert.                                  *)
(***************************************************************************)
C6_SecondRunIsNoop ==
    (/\ Succeeded(1) /\ Succeeded(2)
     /\ run[1].profile = run[2].profile)
    => /\ run[2].result.IsNoop
       /\ ~HasCalled(2, "UpsertFileAndForceBranch")

(***************************************************************************)
(* C7.  No commit created by a run leaves the artifact as it is in the     *)
(* commit's parent.                                                        *)
(***************************************************************************)
C7_NoUnchangedCommit ==
    \A c \in 1..Len(commits) :
       commits[c].by \in Runs =>
          commits[c].tree["default.pgo"] #
             commits[commits[c].parent].tree["default.pgo"]

\* the commits and the pull requests run r has created
CommitsBy(r) == {c \in 1..Len(commits) : commits[c].by = r}

PullsBy(r) == {n \in 1..Len(pulls) : pulls[n].by = r}

LastTwoCalls(r) ==
    SubSeq(run[r].calls, Len(run[r].calls) - 1, Len(run[r].calls))

(***************************************************************************)
(* C8.  When the lookup found an open pull request carrying the marker     *)
(* and ReadFile found the artifact absent or different from the fetched    *)
(* profile, Run calls UpsertFileAndForceBranch exactly once and never      *)
(* Create, and a successful run returns IsProfileChanged = TRUE,           *)
(* IsPullRequestCreated = FALSE, the commit it wrote and the number of the *)
(* pull request found.                                                     *)
(***************************************************************************)
C8_ReuseManagedPull ==
    \A r \in Runs :
       FoundManaged(r) =>
          /\ ~HasCalled(r, "Create")
          /\ CallCount(r, "UpsertFileAndForceBranch") <= 1
          /\ (ReadDiffers(r) /\ run[r].pc # "upsert") =>
                CallCount(r, "UpsertFileAndForceBranch") = 1
          /\ (ReadDiffers(r) /\ Succeeded(r)) =>
                /\ CommitsBy(r) = {run[r].result.CommitSHA}
                /\ run[r].result =
                      [BaseBranch |-> BaseOfRuns, HeadBranch |-> HeadOfRuns,
                       PullRequestNumber |-> run[r].openPR.Number,
                       CommitSHA |-> run[r].result.CommitSHA,
                       IsProfileChanged |-> TRUE,
                       IsPullRequestCreated |-> FALSE, IsNoop |-> FALSE]

\* a run that updated the branch of the managed pull request it found
C8_Witness ==
    \E r \in Runs :
       /\ FoundManaged(r) /\ ReadDiffers(r) /\ Succeeded(r)
       /\ run[r].result.IsProfileChanged
       /\ refs[HeadOfRuns] = run[r].result.CommitSHA

(***************************************************************************)
(* C9.  When the lookup found no open pull request and ReadFile found the  *)
(* artifact absent or different from the fetched profile, Run calls        *)
(* UpsertFileAndForceBranch once and then Create once, from head to base,  *)
(* and a successful run returns IsProfileChanged = TRUE,                   *)
(* IsPullRequestCreated = TRUE, the commit the writer created and the      *)
(* number of the pull request Create opened.                               *)
(***************************************************************************)
C9_CreateWhenNoPull ==
    \A r \in Runs :
       (run[r].openPR.Number = 0 /\ ReadDiffers(r)) =>
          /\ CallCount(r, "UpsertFileAndForceBranch") <= 1
          /\ CallCount(r, "Create") <= 1
          /\ run[r].pc # "upsert" => CallCount(r, "UpsertFileAndForceBranch") = 1
          /\ Succeeded(r) =>
                /\ LastTwoCalls(r) = <<"UpsertFileAndForceBranch", "Create">>
                /\ CallCount(r, "Create") = 1
                /\ CommitsBy(r) = {run[r].result.CommitSHA}
                /\ PullsBy(r) = {run[r].result.PullRequestNumber}
                /\ pulls[run[r].result.PullRequestNumber].base = BaseOfRuns
                /\ pulls[run[r].result.PullRequestNumber].head = HeadOfRuns
                /\ run[r].result =
                      [BaseBranch |-> BaseOfRuns, HeadBranch |-> HeadOfRuns,
                       PullRequestNumber |-> run[r].result.PullRequestNumber,
                       CommitSHA |-> run[r].result.CommitSHA,
                       IsProfileChanged |-> TRUE,
                       IsPullRequestCreated |-> TRUE, IsNoop |-> FALSE]

\* a run that opened a pull request for an artifact absent from the base
C9_Witness ==
    \E r \in Runs :
       /\ run[r].openPR.Number = 0 /\ ReadDiffers(r) /\ Succeeded(r)
       /\ ~run[r].readResult.HasFile
       /\ run[r].result.IsPullRequestCreated

(***************************************************************************)
(* C10.  For every configured body and marker, the body Run passes to      *)
(* Create contains the marker exactly once, overlapping occurrences        *)
(* counted.                                                                *)
(***************************************************************************)
C10_MarkerExactlyOnce ==
    \A n \in 1..Len(pulls) :
       pulls[n].by \in Runs => Occurrences(pulls[n].body, Marker) = 1

(***************************************************************************)
(* C10, amended.  The body Run passes to Create contains the marker at     *)
(* least once; it is the configured body unchanged, with exactly one       *)
(* occurrence, when the configured body contains the marker exactly once,  *)
(* and it contains the marker exactly once when body and marker are both   *)
(* left to their defaults.                                                 *)
(***************************************************************************)
C10_MarkerAtLeastOnce ==
    \A n \in 1..Len(pulls) :
       pulls[n].by \in Runs =>
          /\ Occurrences(pulls[n].body, Marker) >= 1
          /\ Occurrences(ConfiguredBody, Marker) = 1 =>
                /\ pulls[n].body = ConfiguredBody
                /\ Occurrences(pulls[n].body, Marker) = 1
          /\ (TrimSpace(req.Body) = <<>> /\ TrimSpace(req.ManagedByMarker) = <<>>) =>
                Occurrences(pulls[n].body, Marker) = 1

\* a pull request opened with a configured non-empty body that already
\* carried the marker once
C10_Witness ==
    \E n \in 1..Len(pulls) :
       /\ pulls[n].by \in Runs
       /\ TrimSpace(req.Body) # <<>>
       /\ Occurrences(ConfiguredBody, Marker) = 1

(***************************************************************************)
(* C11.  appendMarker is idempotent: for every body and non-empty marker,  *)
(* appendMarker applied to what appendMarker returned returns the same     *)
(* text, and appendMarker returns the body itself whenever the body        *)
(* already contains the marker.                                            *)
(***************************************************************************)
C11_AppendMarkerIdempotent ==
    text.marker # <<>> =>
       /\ text.applied = 2 => text.twice = text.once
       /\ (text.applied >= 1 /\ Contains(text.body, text.marker)) =>
             text.once = text.body

\* applied twice to a body that ends in a newline and lacks the marker
C11_Witness ==
    /\ text.applied = 2 /\ text.marker # <<>>
    /\ ~Contains(text.body, text.marker)
    /\ TrimSpace(text.body) # <<>>
    /\ text.body[Len(text.body)] = NL
    /\ text.once # text.body

\* the platform writes of run r that took effect, of one kind
WriteCount(r, kind) ==
    Cardinality({i \in DOMAIN run[r].writes : run[r].writes[i] = kind})

(***************************************************************************)
(* C12.  Every run that has returned, with or without an error, has either *)
(* written nothing to the repository (no blob, tree, commit, ref or pull   *)
(* request) or has created exactly one commit and at most one pull         *)
(* request.                                                                *)
(***************************************************************************)
C12_NothingOrOneCommit ==
    \A r \in Runs :
       run[r].pc = "done" =>
          \/ run[r].writes = <<>>
          \/ /\ Cardinality(CommitsBy(r)) = 1
             /\ Cardinality(PullsBy(r)) <= 1

(***************************************************************************)
(* C12, amended.  Every run creates at most one commit and at most one     *)
(* pull request; a run that returns without error has either written      *)
(* nothing or has created exactly one commit and set the head ref once;    *)
(* a run that returns an error may leave a blob, a tree or a commit that   *)
(* no ref points at, and opens no pull request without its commit.         *)
(***************************************************************************)
C12_AtMostOneCommit ==
    \A r \in Runs :
       /\ Cardinality(CommitsBy(r)) <= 1
       /\ Cardinality(PullsBy(r)) <= 1
       /\ PullsBy(r) # {} => Cardinality(CommitsBy(r)) = 1
       /\ WriteCount(r, "commit") = Cardinality(CommitsBy(r))
       /\ Succeeded(r) =>
             \/ run[r].writes = <<>> /\ CommitsBy(r) = {}
             \/ /\ Cardinality(CommitsBy(r)) = 1
                /\ WriteCount(r, "ref") = 1

\* a run that returned an error after its blob and tree were written, with
\* no commit
C12_Witness ==
    \E r \in Runs :
       /\ run[r].pc = "done" /\ run[r].err = "update pgo branch"
       /\ run[r].writes = <<"blob", "tree">>
       /\ CommitsBy(r) = {}

\* the steps of Client.updateHeadRef
RefSteps == {"ref_update", "ref_create", "ref_retry"}

\* the upsert of run r returns without error in this step
UpsertReturns(r) ==
    /\ run[r].pc \in RefSteps
    /\ run'[r].pc \notin RefSteps
    /\ run'[r].err = "none"

(***************************************************************************)
(* C13.  With nobody else acting on the head ref, when                     *)
(* UpsertFileAndForceBranch returns without error the head ref points at   *)
(* the new commit, which is the CommitSHA returned, and IsBranchCreated    *)
(* tells whether the head ref was absent when the ref step was reached: a  *)
(* ref that existed is force-updated wherever it pointed.                  *)
(***************************************************************************)
C13_BranchCreatedIffAbsent ==
    [][\A r \in Runs :
          UpsertReturns(r) =>
             /\ refs'[HeadOfRuns] = run[r].commitSHA
             /\ run'[r].writeResult =
                   [CommitSHA |-> refs'[HeadOfRuns],
                    IsBranchCreated |-> (refs[HeadOfRuns] = 0)]
             /\ run'[r].result.CommitSHA = refs'[HeadOfRuns]
      ]_vars

\* the second run force-updated a head ref that pointed at a commit which is
\* not the parent of the new one, after the first run had created the ref
C13_Witness ==
    /\ Succeeded(1) /\ run[1].writeResult.IsBranchCreated
    /\ Succeeded(2) /\ ~run[2].writeResult.IsBranchCreated
    /\ run[2].result.CommitSHA # 0
    /\ refs[HeadOfRuns] = run[2].result.CommitSHA
    /\ commits[refs[HeadOfRuns]].parent # run[1].result.CommitSHA

(***************************************************************************)
(* C15.  No run issues more than two force-update or create calls on the   *)
(* head ref.                                                               *)
(***************************************************************************)
C15_AtMostTwoRefAttempts == \A r \in Runs : run[r].refAttempts <= 2

(***************************************************************************)
(* C15, amended.  No run issues more than three calls on the head ref (a   *)
(* force update, a create, a second force update), and at most one of      *)
(* them takes effect.                                                      *)
(***************************************************************************)
C15_AtMostThreeRefAttempts ==
    \A r \in Runs :
       /\ run[r].refAttempts <= 3
       /\ WriteCount(r, "ref") <= 1

\* a run whose third call on the head ref set it
C15_Witness ==
    \E r \in Runs :
       /\ run[r].refAttempts = 3
       /\ WriteCount(r, "ref") = 1
       /\ Succeeded(r)

(***************************************************************************)
(* C14.  Whatever other actors do to the head ref between the calls of the *)
(* ref step, when every call that failed did so because the ref existed    *)
(* or was absent, UpsertFileAndForceBranch returns without error and has   *)
(* set the head ref to the new commit: the second force update, made       *)
(* after the create was refused because the ref existed, does not find     *)
(* the ref absent.                                                         *)
(***************************************************************************)
C14_ToleratesCreateAndDelete ==
    [][\A r \in Runs :
          (/\ retryUpdateHeadRef(r)
           /\ run[r].createErr = "exists"
           /\ refs[HeadOfRuns] = 0)
          => /\ run'[r].err = "none"
             /\ refs'[HeadOfRuns] = run[r].commitSHA
      ]_vars

\* the last collaborator call of run r
LastCall(r) == run[r].calls[Len(run[r].calls)]

\* the platform lists no entry at the requested path of the tip of the base
\* branch of run r
NoEntryListed(r) ==
    \/ platform.omitted
    \/ commits[refs[run[r].baseBranch]].tree[req.PGOPath] = NoEntry

(***************************************************************************)
(* C16.  When the recursive listing of the branch tip's tree has no entry  *)
(* at the requested path, ReadFile returns HasFile = FALSE without error   *)
(* if the listing was not truncated, and an error, never HasFile = FALSE,  *)
(* if it was truncated.                                                    *)
(***************************************************************************)
C16_MissingOrTruncated ==
    [][\A r \in Runs :
          (ReadFile(r) /\ NoEntryListed(r)) =>
             IF platform.truncated
             THEN /\ ReadFileResult(run[r].baseBranch, req.PGOPath).err # "none"
                  /\ run'[r].pc = "done"
                  /\ run'[r].err = "read base branch pgo file"
             ELSE /\ ReadFileResult(run[r].baseBranch, req.PGOPath) =
                        [err |-> "none", HasFile |-> FALSE, Content |-> ""]
                  /\ run'[r].err = "none" =>
                        /\ ~run'[r].readResult.HasFile
                        /\ run'[r].pc = "upsert"
      ]_vars

\* a run failed at ReadFile on a truncated listing that left out the entry
\* of an artifact the tree has
C16_Witness ==
    \E r \in Runs :
       /\ platform.truncated /\ platform.omitted
       /\ commits[refs["dev"]].tree["default.pgo"] = "old"
       /\ run[r].pc = "done" /\ run[r].err = "read base branch pgo file"
       /\ LastCall(r) = "ReadFile"

(***************************************************************************)
(* C17.  A configured non-blank base branch is the one Run uses, and       *)
(* DefaultBranch is never called; with a blank one Run uses what           *)
(* DefaultBranch returns, and when that query fails or returns a blank     *)
(* name Run fails with a branch resolution error before any pull request   *)
(* lookup, file read or write.                                             *)
(***************************************************************************)
C17_BaseBranchResolution ==
    \A r \in Runs :
       /\ req.BaseBranch \notin BlankNames =>
             /\ ~HasCalled(r, "DefaultBranch")
             /\ run[r].baseBranch \in {"", req.BaseBranch}
             /\ run[r].result.BaseBranch \in {"", req.BaseBranch}
       /\ req.BaseBranch \in BlankNames =>
             /\ run[r].baseBranch \in {"", platform.defaultBranch}
             /\ run[r].result.BaseBranch \in {"", platform.defaultBranch}
             /\ HasCalled(r, "FindOpenByHead") =>
                   /\ CallCount(r, "DefaultBranch") = 1
                   /\ platform.defaultBranch \notin BlankNames
             /\ (HasCalled(r, "DefaultBranch")
                   /\ platform.defaultBranch \in BlankNames) =>
                   /\ run[r].pc = "done"
                   /\ run[r].err = "resolve default branch"
       /\ run[r].err = "resolve default branch" =>
             /\ run[r].pc = "done"
             /\ LastCall(r) = "DefaultBranch"
             /\ ~HasCalled(r, "FindOpenByHead")
             /\ ~HasCalled(r, "ReadFile")
             /\ ~HasCalled(r, "UpsertFileAndForceBranch")
             /\ ~HasCalled(r, "Create")
             /\ run[r].writes = <<>>

\* the repository reported an empty default branch to a run without a
\* configured base branch
C17_Witness ==
    \E r \in Runs :
       /\ req.BaseBranch \in BlankNames
       /\ platform.defaultBranch = ""
       /\ run[r].err = "resolve default branch"

(***************************************************************************)
(* C18.  A run that returns an error, from whatever stage, returns the     *)
(* zero RunResult; a RunResult other than the zero value comes with no     *)
(* error.                                                                  *)
(***************************************************************************)
C18_ZeroResultOnError ==
    LET zero == [BaseBranch |-> "", HeadBranch |-> "", PullRequestNumber |-> 0,
                 CommitSHA |-> 0, IsProfileChanged |-> FALSE,
                 IsPullRequestCreated |-> FALSE, IsNoop |-> FALSE]
    IN  \A r \in Runs :
           /\ (run[r].pc = "done" /\ run[r].err # "none") => run[r].result = zero
           /\ (run[r].pc = "done" /\ run[r].result # zero) => run[r].err = "none"

\* Create failed after the run had written its commit and set the head ref
C18_Witness ==
    \E r \in Runs :
       /\ run[r].pc = "done" /\ run[r].err = "create pull request"
       /\ CommitsBy(r) # {}
       /\ refs[HeadOfRuns] \in CommitsBy(r)
       /\ run[r].result.CommitSHA = 0

\* the calls that take the context of the run
ContextCalls ==
    {"FetchCPUProfile", "DefaultBranch", "FindOpenByHead", "ReadFile",
     "UpsertFileAndForceBranch", "Create"}

\* run r issues a collaborator call in this step
Issues(r, names) ==
    /\ Len(run'[r].calls) = Len(run[r].calls) + 1
    /\ run'[r].calls[Len(run'[r].calls)] \in names

EndsWithError(r) == run'[r].pc = "done" /\ run'[r].err # "none"

RepositoryUnchanged == UNCHANGED <<refs, commits, pulls>>

(***************************************************************************)
(* C19.  Once the deadline of a run has passed or its context is           *)
(* cancelled, every collaborator call the run still issues fails, no       *)
(* write to the repository or to a pull request takes effect, and Run      *)
(* returns an error.                                                       *)
(***************************************************************************)
C19_EveryCallFailsAfterDeadline ==
    [][\A r \in Runs :
          (run[r].expired /\ run'[r] # run[r]) =>
             /\ RepositoryUnchanged
             /\ run'[r].writes = run[r].writes
             /\ Issues(r, ContextCalls \cup {"ValidateCPUProfile"}) =>
                   EndsWithError(r)
      ]_vars

(***************************************************************************)
(* C19, amended.  Once the deadline of a run has passed or its context is  *)
(* cancelled, every call the run still issues that takes the context (the  *)
(* profile fetch, the repository calls, the pull request calls) fails and  *)
(* ends the run with an error, every platform call inside an upsert under  *)
(* way fails, and no write to the repository or to a pull request takes    *)
(* effect; the profile validator takes no context and is still called.     *)
(***************************************************************************)
C19_ContextCallsFailAfterDeadline ==
    [][\A r \in Runs :
          (run[r].expired /\ run'[r] # run[r]) =>
             /\ RepositoryUnchanged
             /\ run'[r].writes = run[r].writes
             /\ Issues(r, ContextCalls) => EndsWithError(r)
             /\ run[r].pc \in {"blob", "tree", "commit", "ref_update", "ref_retry"}
                   => EndsWithError(r)
             /\ run[r].pc = "ref_create" =>
                   run'[r].pc = "ref_retry" \/ EndsWithError(r)
      ]_vars

\* the deadline passed between the commit and the ref step: the upsert
\* failed and the head ref was never set
C19_Witness ==
    \E r \in Runs :
       /\ run[r].expired
       /\ run[r].pc = "done" /\ run[r].err = "update pgo branch"
       /\ run[r].writes = <<"blob", "tree", "commit">>
       /\ run[r].refAttempts = 1
       /\ refs[HeadOfRuns] \notin CommitsBy(r)

\* a required field of the request is missing
InvalidRequest ==
    \/ req.URL \in {"nil", "noscheme", "nohost"}
    \/ req.Owner \in BlankNames
    \/ req.Name \in BlankNames
    \/ req.PGOPath \in BlankNames

(***************************************************************************)
(* C20.  When the profile URL is absent or lacks a scheme or a host, or    *)
(* the repository owner, repository name or artifact path is blank, Run    *)
(* returns an error and calls no collaborator: no profile fetch, no        *)
(* validation, no repository or pull request call.                         *)
(***************************************************************************)
C20_InvalidRequestCallsNothing ==
    InvalidRequest =>
       \A r \in Runs :
          /\ run[r].calls = <<>>
          /\ run[r].writes = <<>>
          /\ run[r].pc \in {"normalize", "done"}
          /\ run[r].pc = "done" =>
                /\ run[r].err # "none"
                /\ run[r].result = ZeroResult
          /\ refs[HeadOfRuns] = 0

\* a request with everything but the artifact path was refused
C20_Witness ==
    /\ req.URL = "ok" /\ req.Owner = "acme" /\ req.Name = "payments"
    /\ req.PGOPath = " "
    /\ \A r \in Runs : run[r].pc = "done" /\ run[r].err # "none"

(***************************************************************************)
(* C21: normalization applies the defaults and changes nothing else.  The  *)
(* sample seconds become 30 exactly when they are <= 0, the head branch    *)
(* becomes "cpgo" exactly when it is blank, marker, title, body and commit *)
(* message become their defaults exactly when blank, every other field and *)
(* the base branch pass through, and normalizing the result again returns  *)
(* it unchanged.                                                           *)
(***************************************************************************)
BlankString(x) == x \in {"", " "}

BlankText(t) == \A i \in 1..Len(t) : t[i] \in {" ", NL}

DefaultedString(in, out, default) ==
    out = IF BlankString(in) THEN default ELSE in

DefaultedText(in, out, default) ==
    out = IF BlankText(in) THEN default ELSE in

C21_NormalizationDefaults ==
    (call.op = "normalized" /\ call.applied >= 1 /\ call.err = "none") =>
        LET in == call.request
            out == call.once
        IN  /\ out.Seconds = IF in.Seconds <= 0 THEN 30 ELSE in.Seconds
            /\ DefaultedString(in.HeadBranch, out.HeadBranch, "cpgo")
            /\ DefaultedString(in.Title, out.Title, defaultPRTitle)
            /\ DefaultedString(in.Message, out.Message, defaultCommitMessage)
            /\ DefaultedText(in.Body, out.Body, defaultPRBody)
            /\ DefaultedText(in.ManagedByMarker, out.ManagedByMarker,
                             defaultManagedByMarker)
            /\ out.BaseBranch = in.BaseBranch
            /\ out.URL = in.URL
            /\ out.Owner = in.Owner
            /\ out.Name = in.Name
            /\ out.PGOPath = in.PGOPath
            /\ call.applied = 2 => call.twice = call.once

C21_Witness ==
    /\ call.op = "normalized"
    /\ call.applied = 2
    /\ call.request.Seconds = 0
    /\ call.request.HeadBranch = " "
    /\ call.request.Title = "t"
    /\ call.request.Body = <<NL>>
    /\ call.once.Seconds = 30
    /\ call.once.HeadBranch = "cpgo"
    /\ call.once.Title = "t"
    /\ call.once.Body = defaultPRBody
    /\ call.twice = call.once

(***************************************************************************)
(* C23: Client.Create returns a validation error, issues no platform call  *)
(* and creates no pull request whenever the base branch, the head branch,  *)
(* the title or the body is blank; it creates a pull request only when all *)
(* four are non-blank.                                                     *)
(***************************************************************************)
ValidationErrors ==
    {"base branch is required", "head branch is required",
     "title is required", "body is required"}

HasBlankField(cr) ==
    \/ BlankString(cr.BaseBranch)
    \/ BlankString(cr.HeadBranch)
    \/ BlankString(cr.Title)
    \/ BlankText(cr.Body)

C23_CreateValidation ==
    (call.op = "Create" /\ call.applied = 1) =>
        /\ HasBlankField(call.request) =>
              /\ call.err \in ValidationErrors
              /\ call.number = 0
              /\ pulls = <<>>
        /\ pulls # <<>> => ~HasBlankField(call.request)

C23_Witness ==
    /\ call.op = "Create"
    /\ call.applied = 1
    /\ call.request.BaseBranch = "main"
    /\ call.request.HeadBranch = "cpgo"
    /\ call.request.Title = "t"
    /\ call.request.Body = <<NL>>
    /\ call.err = "body is required"
    /\ pulls = <<>>

(***************************************************************************)
(* C22: FindOpenByHead returns a pull request only if it is open, targets  *)
(* exactly the requested base branch and has the head owner:headBranch of  *)
(* the repository owner; when several match it returns the first one the   *)
(* platform lists (the newest); when none matches it returns no pull       *)
(* request and no error.                                                   *)
(***************************************************************************)
MatchingPulls ==
    {n \in 1..Len(pulls) :
        /\ pulls[n].open
        /\ pulls[n].base = BaseOfRuns
        /\ pulls[n].owner = req.Owner
        /\ pulls[n].head = HeadOfRuns}

\* the lookup of run r has returned
LookupReturns(r) == run[r].pc = "find" /\ run'[r].pc # "find"

C22_FindOpenByHead ==
    [][\A r \in Runs :
          LookupReturns(r) =>
              /\ MatchingPulls = {} =>
                    /\ run'[r].openPR = [Number |-> 0, Body |-> <<>>]
                    /\ \/ run'[r].err = "find open pull request"
                       \/ run'[r].pc = "read" /\ run'[r].err = "none"
              /\ run'[r].openPR.Number # 0 =>
                    /\ run'[r].openPR.Number \in MatchingPulls
                    /\ \A n \in MatchingPulls : n <= run'[r].openPR.Number
                    /\ run'[r].openPR.Body =
                          pulls[run'[r].openPR.Number].body]_vars

C22_Witness ==
    /\ Len(pulls) = 2
    /\ pulls[1] = ManualPull
    /\ pulls[2] = [ManualPull EXCEPT !.owner = "fork"]
    /\ run[1].pc = "done"
    /\ run[1].openPR.Number = 1
    /\ run[1].err = "ErrUnmanagedPullRequest"

(***************************************************************************)
(* C27: in updateHeadRef the creation of the head ref is attempted only    *)
(* when the first force-update failed because the ref does not exist; a    *)
(* first force-update that fails for any other reason returns an error at  *)
(* once, without a create and without a second force-update.               *)
(***************************************************************************)
\* run r goes on from its first force-update to creating the ref
TurnsToCreate(r) == run[r].pc = "ref_update" /\ run'[r].pc = "ref_create"

C27_CreateOnlyWhenRefMissing ==
    [][\A r \in Runs : TurnsToCreate(r) => refs[HeadOfRuns] = 0]_vars

(***************************************************************************)
(* C28: in updateHeadRef the second force-update is attempted only when    *)
(* creating the ref failed because another actor had concurrently created  *)
(* the same ref, and exactly once; a retry that succeeds gives success     *)
(* with IsBranchCreated = FALSE, one that fails gives an error naming the  *)
(* create failure and the retry failure.                                   *)
(***************************************************************************)
\* run r goes on from the failed create to the second force-update
TurnsToRetry(r) == run[r].pc = "ref_create" /\ run'[r].pc = "ref_retry"

C28_RetryOnlyWhenRefAppeared ==
    [][\A r \in Runs : TurnsToRetry(r) => refs[HeadOfRuns] # 0]_vars

(***************************************************************************)
(* C24: in every run the collaborator calls form a prefix of the sequence  *)
(* FetchCPUProfile, ValidateCPUProfile, DefaultBranch (only when the       *)
(* configured base is blank), FindOpenByHead, ReadFile,                    *)
(* UpsertFileAndForceBranch, Create: each call is made at most once and in *)
(* this order, and the first call that fails ends the run, with no later   *)
(* call and no retry.                                                      *)
(***************************************************************************)
FixedSequence ==
    <<"FetchCPUProfile", "ValidateCPUProfile">> \o
    (IF req.BaseBranch \in BlankNames THEN <<"DefaultBranch">> ELSE <<>>) \o
    <<"FindOpenByHead", "ReadFile", "UpsertFileAndForceBranch", "Create">>

IsPrefix(s, t) == Len(s) <= Len(t) /\ s = SubSeq(t, 1, Len(s))

C24_CallsFormPrefix ==
    [][\A r \in Runs :
          /\ IsPrefix(run'[r].calls, FixedSequence)
          /\ run'[r].err # "none" => run'[r].pc = "done"
          /\ run[r].pc = "done" => run'[r].calls = run[r].calls]_vars

C24_Witness ==
    /\ run[1].pc = "done"
    /\ run[1].err = "update pgo branch"
    /\ run[1].calls =
          <<"FetchCPUProfile", "ValidateCPUProfile", "DefaultBranch",
            "FindOpenByHead", "ReadFile", "UpsertFileAndForceBranch">>
    /\ run[2].pc = "done"
    /\ run[2].err = "fetch cpu profile"
    /\ run[2].calls = <<"FetchCPUProfile">>

(***************************************************************************)
(* C25: within UpsertFileAndForceBranch the platform calls occur in the    *)
(* order resolve base ref, get base commit, create blob, create tree,      *)
(* create commit, mutate head ref; when a call before the ref step fails   *)
(* (or answers without a SHA) the operation returns an error, issues no    *)
(* later call and leaves the head ref unchanged, and the objects already   *)
(* created are neither deleted nor rolled back.                            *)
(***************************************************************************)
WriteOrder == <<"blob", "tree", "commit", "ref">>

IsObjectWrite(kind) == kind \in {"blob", "tree", "commit", "ref"}

\* the writes of an upsert among the writes of a run
UpsertWrites(writes) == SelectSeq(writes, IsObjectWrite)

\* the upsert of run r returns an error in this step, before its ref step
FailsBeforeRefStep(r) ==
    /\ run[r].pc # "done"
    /\ run'[r].pc = "done"
    /\ run'[r].err = "update pgo branch"
    /\ run'[r].refAttempts = 0

C25_UpsertCallOrder ==
    [][\A r \in Runs :
          /\ IsPrefix(UpsertWrites(run'[r].writes), WriteOrder)
          /\ (run'[r].baseTreeSHA # run[r].baseTreeSHA
                 /\ run'[r].baseTreeSHA # <<>>) =>
                (run[r].baseCommitSHA # 0 /\ run[r].writes = <<>>)
          /\ UpsertWrites(run'[r].writes) # UpsertWrites(run[r].writes) =>
                (run[r].baseCommitSHA # 0 /\ run[r].baseTreeSHA # <<>>)
          /\ FailsBeforeRefStep(r) =>
                /\ run'[r].writes = run[r].writes
                /\ WriteCount(r, "ref") = 0
                /\ refs' = refs
                /\ commits' = commits
          /\ run[r].pc = "done" => run'[r] = run[r]
          /\ Len(commits') >= Len(commits)
          /\ \A c \in 1..Len(commits) : commits'[c] = commits[c]]_vars

C25_Witness ==
    /\ run[1].pc = "done"
    /\ run[1].err = "update pgo branch"
    /\ run[1].writes = <<"blob", "tree">>
    /\ run[1].refAttempts = 0
    /\ CommitsBy(1) = {}
    /\ refs["cpgo"] = 0

(***************************************************************************)
(* C26: every commit created by UpsertFileAndForceBranch has exactly one   *)
(* parent, the commit of the base branch resolved at the start of that     *)
(* call, and its tree equals that parent's tree except that the entry at   *)
(* the artifact path is the new blob; no other entry is added, removed or  *)
(* changed.                                                                *)
(***************************************************************************)
RECURSIVE Lineage(_)
\* a commit and its ancestors
Lineage(c) == IF c = 0 THEN {} ELSE {c} \cup Lineage(commits[c].parent)

\* run r creates a commit in this step
CreatesCommit(r) ==
    /\ Len(commits') = Len(commits) + 1
    /\ commits'[Len(commits')].by = r

\* the upsert of run r resolves the base branch in this step
ResolvesBase(r) == run[r].baseCommitSHA = 0 /\ run'[r].baseCommitSHA # 0

EntryAtPath(r) == commits[refs[run[r].baseBranch]].tree[req.PGOPath]

\* the platform lists an entry at that path
EntryListed(r) == ~platform.omitted /\ EntryAtPath(r) # NoEntry

C29_ReadMatchingEntry ==
    [][\A r \in Runs :
          (ReadFile(r) /\ EntryListed(r)) =>
             LET answer == ReadFileResult(run[r].baseBranch, req.PGOPath)
                 fails == /\ answer.err # "none"
                          /\ run'[r].pc = "done"
                          /\ run'[r].err = "read base branch pgo file"
             IN  IF EntryAtPath(r) = DirEntry THEN fails
                 ELSE IF EntryAtPath(r) \in platform.missingBlobs
                 THEN /\ answer =
                           [err |-> "none", HasFile |-> FALSE, Content |-> ""]
                      /\ run'[r].err = "none" =>
                            (~run'[r].readResult.HasFile /\ run'[r].pc = "upsert")
                 ELSE IF EntryAtPath(r) \in platform.failingBlobs THEN fails
                 ELSE /\ answer =
                           [err |-> "none", HasFile |-> TRUE,
                            Content |-> EntryAtPath(r)]
                      /\ run'[r].err = "none" =>
                            /\ run'[r].readResult.HasFile
                            /\ run'[r].readResult.Content = EntryAtPath(r)
      ]_vars

\* a run went on to the upsert after the blob of the listed artifact was
\* answered not found
C29_Witness ==
    \E r \in Runs :
       /\ "old" \in platform.missingBlobs
       /\ ~platform.omitted
       /\ commits[refs["dev"]].tree["default.pgo"] = "old"
       /\ run[r].pc = "upsert"
       /\ run[r].err = "none"
       /\ LastCall(r) = "ReadFile"
       /\ ~run[r].readResult.HasFile

(***************************************************************************)
(* C30: for every body that does not contain the marker, appendMarker      *)
(* returns a text that begins with the existing body unchanged, followed   *)
(* by one blank line and then the marker as the final characters; for a    *)
(* blank body it returns the marker alone.                                 *)
(***************************************************************************)
\* appendMarker has been called on a body that does not contain the marker
AppendedToBodyWithoutMarker ==
    text.applied >= 1 /\ ~Contains(text.body, text.marker)

EndsWith(t, suffix) ==
    Len(suffix) <= Len(t) /\ suffix = SubSeq(t, Len(t) - Len(suffix) + 1, Len(t))

\* the newlines a text ends with
TrailingNewlines(t) ==
    Cardinality({i \in 1..Len(t) : \A j \in i..Len(t) : t[j] = NL})

\* a text without the newlines it ends with
Stem(t) == SubSeq(t, 1, Len(t) - TrailingNewlines(t))

C30_BodyThenBlankLineThenMarker ==
    AppendedToBodyWithoutMarker =>
        IF BlankText(text.body)
        THEN text.once = text.marker
        ELSE /\ IsPrefix(text.body, text.once)
             /\ EndsWith(text.once, <<NL, NL>> \o text.marker)

\* what holds instead: the newlines the body ends with are replaced by the
\* blank line, so the body is kept whole only when it ends with at most two
C30_StemThenBlankLineThenMarker ==
    AppendedToBodyWithoutMarker =>
        IF BlankText(text.body)
        THEN text.once = text.marker
        ELSE /\ text.once = Stem(text.body) \o <<NL, NL>> \o text.marker
             /\ TrailingNewlines(text.body) <= 2 =>
                   IsPrefix(text.body, text.once)

C30_Witness ==
    /\ text.applied >= 1
    /\ text.body = <<"a", NL, NL, NL>>
    /\ text.marker = <<"a", "a">>
    /\ text.once = <<"a", NL, NL, "a", "a">>

(***************************************************************************)
(* C31: every invocation of Run eventually returns a result or an error,   *)
(* provided each collaborator call returns; no stage loops or retries, and *)
(* the only platform operation made twice is the force update of the head  *)
(* ref, retried once.                                                      *)
(***************************************************************************)
\* no collaborator is called twice by run r
CallsOnce(r) ==
    \A i, j \in 1..Len(run[r].calls) :
       run[r].calls[i] = run[r].calls[j] => i = j

C31_RunReturns ==
    /\ \A r \in Runs : <>(run[r].pc = "done")
    /\ [](\A r \in Runs :
            /\ CallsOnce(r)
            /\ run[r].refAttempts <= 3
            /\ \A kind \in {"blob", "tree", "commit", "ref", "pull"} :
                  WriteCount(r, kind) <= 1)

C31_Witness ==
    /\ run[1].pc = "done" /\ run[1].refAttempts = 3 /\ run[1].err = "none"
    /\ run[2].pc = "done" /\ run[2].err # "none"

(***************************************************************************)
(* C32: when two runs execute UpsertFileAndForceBranch concurrently for    *)
(* the same head branch, which does not exist at first, and nobody else    *)
(* touches that ref, both calls succeed in every interleaving, exactly one *)
(* of them reports IsBranchCreated = TRUE, and the head ref ends up at the *)
(* commit of the run whose ref mutation was applied last.                  *)
(***************************************************************************)
\* the upsert of run r has returned without error
Upserted(r) == WriteCount(r, "ref") = 1 /\ run[r].pc \in {"create_pr", "done"}

\* the head ref is changed in this step
HeadRefChanges == refs'[HeadOfRuns] # refs[HeadOfRuns]

C32_ConcurrentUpserts ==
    /\ [](\A r \in Runs : run[r].err # "update pgo branch")
    /\ []((\A r \in Runs : Upserted(r)) =>
            /\ Cardinality({r \in Runs : run[r].writeResult.IsBranchCreated}) = 1
            /\ \E r \in Runs : refs[HeadOfRuns] = run[r].writeResult.CommitSHA)
    /\ [][HeadRefChanges =>
            \E r \in Runs :
               /\ run[r].pc \in RefSteps
               /\ run'[r] # run[r]
               /\ refs'[HeadOfRuns] = run[r].commitSHA
               /\ run'[r].writeResult.CommitSHA = run[r].commitSHA]_vars

\* both runs found the ref missing; the first created it, the second was
\* refused the create and force-updated the ref on its retry
C32_Witness ==
    /\ Upserted(1) /\ run[1].writeResult.IsBranchCreated
    /\ Upserted(2) /\ ~run[2].writeResult.IsBranchCreated
    /\ run[2].refAttempts = 3
    /\ refs[HeadOfRuns] = run[2].writeResult.CommitSHA

(***************************************************************************)
(* C33: after every successful UpsertFileAndForceBranch whose head branch  *)
(* differs from its base branch, the commit the head ref is set to has as  *)
(* parent a commit that was the tip of the base branch during that call,   *)
(* never the previous commit of the head branch; so the head branch is     *)
(* always exactly one automation commit ahead of a commit of the base      *)
(* branch and never accumulates a chain of automation commits.             *)
(***************************************************************************)
\* the commits of the base branch
BaseCommits == Lineage(refs[BaseOfRuns])

\* the head branch is at a commit of the base branch, or one commit of a run
\* ahead of one
OneAheadOfBase(head) ==
    \/ head \in BaseCommits
    \/ commits[head].by \in Runs /\ commits[head].parent \in BaseCommits

C33_NeverOnHeadCommit ==
    [][\A r \in Runs :
          WritesHeadRef(r) =>
              /\ commits[run[r].commitSHA].parent \in BaseCommits
              /\ commits[run[r].commitSHA].parent # refs[HeadOfRuns]
              /\ OneAheadOfBase(refs'[HeadOfRuns])]_vars

\* what holds instead: the parent is a tip of the base branch whatever the
\* head ref pointed at, which can be that very commit
C33_ParentIsBaseTip ==
    [][\A r \in Runs :
          WritesHeadRef(r) =>
              /\ commits[run[r].commitSHA].parent \in BaseCommits
              /\ commits[run[r].commitSHA].parent = refs[HeadOfRuns] =>
                    refs[HeadOfRuns] \in BaseCommits
              /\ commits[run[r].commitSHA].by = r
              /\ OneAheadOfBase(refs'[HeadOfRuns])]_vars

\* the second run replaced the commit of the first on the head branch
C33_Witness ==
    /\ WriteCount(1, "ref") = 1
    /\ WriteCount(2, "ref") = 1
    /\ run[1].pc = "done" /\ run[1].result.CommitSHA # 0
    /\ run[2].pc = "done" /\ run[2].result.CommitSHA # 0
    /\ refs[HeadOfRuns] = run[2].result.CommitSHA
    /\ commits[refs[HeadOfRuns]].parent \in BaseCommits
    /\ run[1].result.CommitSHA \notin Lineage(refs[HeadOfRuns])

(***************************************************************************)
(* C34: Run never changes the base branch ref: for every request accepted  *)
(* by normalization the only ref a run creates or force-updates is         *)
(* distinct from the base branch ref, and with no other actor the base     *)
(* branch tip after a run is the tip before it.                            *)
(***************************************************************************)
C34_BaseRefUnchanged ==
    [][/\ refs'[BaseOfRuns] = refs[BaseOfRuns]
       /\ \A r \in Runs : WritesHeadRef(r) => HeadOfRuns # BaseOfRuns]_vars

(***************************************************************************)
(* C35: convergence after merge.  When a run that fetched P has succeeded  *)
(* with IsProfileChanged, the base branch has then been advanced to the    *)
(* commit that run produced, and the next run has fetched the same bytes   *)
(* P, the next run's read of the base branch ends it: it returns IsNoop    *)
(* (or the error of the read) and changes no ref, commit or pull request.  *)
(***************************************************************************)
\* run q produced a commit the base branch now points at, and run r, about
\* to read the base branch, has fetched the bytes run q fetched
ReadsMergedProfile(q, r) ==
    /\ Succeeded(q) /\ run[q].result.IsProfileChanged
    /\ refs[BaseOfRuns] = run[q].result.CommitSHA
    /\ run[r].pc = "read"
    /\ run[r].profile = run[q].profile
    /\ run'[r] # run[r]

C35_NoopAfterMerge ==
    [][ReadsMergedProfile(1, 2) =>
          /\ run'[2].pc = "done"
          /\ run'[2].err = "none" => run'[2].result.IsNoop
          /\ run'[2].writes = <<>>
          /\ CommitsBy(2) = {} /\ PullsBy(2) = {}
          /\ UNCHANGED <<refs, commits, pulls>>]_vars

C35_Witness ==
    /\ Succeeded(1) /\ run[1].result.IsProfileChanged
    /\ run[1].result.IsPullRequestCreated
    /\ refs[BaseOfRuns] = run[1].result.CommitSHA
    /\ refs[BaseOfRuns] # 1
    /\ Succeeded(2) /\ run[2].result.IsNoop
    /\ run[2].profile = run[1].profile
    /\ run[2].writes = <<>>
    /\ \A n \in 1..Len(pulls) : ~pulls[n].open

(***************************************************************************)
(* C36: every RunResult returned with a nil error has exactly one of       *)
(* IsNoop and IsProfileChanged set; IsPullRequestCreated implies           *)
(* IsProfileChanged; IsNoop implies an empty CommitSHA; IsProfileChanged   *)
(* implies that CommitSHA is the SHA the writer returned; BaseBranch is    *)
(* the resolved base branch and HeadBranch the normalized head branch.     *)
(***************************************************************************)
WellFormedResult(r) ==
    LET res == run[r].result
    IN  /\ res.IsNoop # res.IsProfileChanged
        /\ res.IsPullRequestCreated => res.IsProfileChanged
        /\ res.IsNoop => res.CommitSHA = 0
        /\ res.IsProfileChanged =>
              /\ res.CommitSHA = run[r].writeResult.CommitSHA
              /\ res.CommitSHA \in CommitsBy(r)
        /\ res.BaseBranch = BaseOfRuns
        /\ res.HeadBranch = HeadOfRuns

C36_ResultWellFormed == \A r \in Runs : Succeeded(r) => WellFormedResult(r)

C36_Witness ==
    /\ Succeeded(1) /\ run[1].result.IsNoop
    /\ Succeeded(2) /\ run[2].result.IsPullRequestCreated
    /\ req.BaseBranch = "dev" /\ req.HeadBranch = ""

(***************************************************************************)
(* C37: for every request the marker Run classifies an open pull request   *)
(* with is non-blank (a blank configured marker is replaced by the default *)
(* first), so no pull request is taken for a managed one through a match   *)
(* of the empty text, and a lookup that answers with an open pull request  *)
(* whose body is empty always ends the run with ErrUnmanagedPullRequest.   *)
(***************************************************************************)
\* the lookup of run r answers in this step with a pull request whose body
\* is empty
FindsEmptyBody(r) ==
    /\ run[r].pc = "find"
    /\ run'[r].openPR.Number # 0
    /\ run'[r].openPR.Body = <<>>

C37_EmptyBodyIsUnmanaged ==
    [][/\ ~BlankText(N.ManagedByMarker)
       /\ \A r \in Runs :
             FindsEmptyBody(r) =>
                /\ run'[r].pc = "done"
                /\ run'[r].err = "ErrUnmanagedPullRequest"
                /\ run'[r].result = ZeroResult
                /\ run'[r].writes = <<>>]_vars

C37_Witness ==
    /\ BlankText(req.ManagedByMarker)
    /\ Len(pulls) = 1 /\ pulls[1].open /\ pulls[1].body = <<>>
    /\ \A r \in Runs :
          /\ run[r].pc = "done"
          /\ run[r].err = "ErrUnmanagedPullRequest"
          /\ run[r].openPR = [Number |-> 1, Body |-> <<>>]

(***************************************************************************)
(* C38: write/read round trip.  With no concurrent actor and complete tree *)
(* listings, after UpsertFileAndForceBranch has written content C at path  *)
(* P to head branch H from base branch B, ReadFile(H, P) returns HasFile   *)
(* with content C, and for every other path Q ReadFile(H, Q) returns what  *)
(* ReadFile(B, Q) returned before the upsert.                              *)
(***************************************************************************)
\* the path written and the paths inside a directory of that name
WrittenPath == "default.pgo"

InsideWrittenPath == {"default.pgo/x"}

ReadsBack(r) ==
    ReadFileResult(HeadOfRuns, WrittenPath)' =
        [err |-> "none", HasFile |-> TRUE, Content |-> run[r].profile]

SameAsOnBase(r, Q) ==
    ReadFileResult(HeadOfRuns, Q)' = ReadFileResult(run[r].baseBranch, Q)

Calls(r, name) ==
    /\ Len(run'[r].calls) = Len(run[r].calls) + 1
    /\ run'[r].calls[Len(run'[r].calls)] = name

\* with collaborators that fail for their input checks only, the call of
\* this step is accepted
Accepted(r) == run'[r].err = "none"

C39_ArgumentsPassChecks ==
    [][\A r \in Runs :
          /\ Calls(r, "FetchCPUProfile") =>
                /\ FetchProfileRequest.URL # "nil"
                /\ FetchProfileRequest.Seconds >= 1
                /\ Accepted(r)
          /\ Calls(r, "UpsertFileAndForceBranch") =>
                /\ ~BlankString(UpsertFileRequest(run[r]).HeadBranch)
                /\ ~BlankString(UpsertFileRequest(run[r]).Path)
                /\ ~BlankString(UpsertFileRequest(run[r]).CommitMessage)
                /\ Accepted(r)
          /\ Calls(r, "Create") =>
                /\ ~BlankString(CreateRequest(run[r]).HeadBranch)
                /\ ~BlankString(CreateRequest(run[r]).Title)
                /\ ~BlankText(CreateRequest(run[r]).Body)
                /\ Accepted(r)]_vars

C39_Witness ==
    /\ req.Seconds = -1 /\ req.HeadBranch = " " /\ req.Title = ""
    /\ req.Body = <<NL>> /\ req.Message = " "
    /\ Succeeded(1) /\ run[1].result.IsPullRequestCreated
    /\ HasCalled(1, "FetchCPUProfile")
    /\ HasCalled(1, "UpsertFileAndForceBranch")
    /\ HasCalled(1, "Create")
    /\ pulls[run[1].result.PullRequestNumber].title = defaultPRTitle

=============================================================================
